---- MODULE Spec2Model ----
(***************************************************************************)
(* compute_metrics of python/analyzer.py (duplicated verbatim in           *)
(* python/tcg_analyzer.py): one analysis call as a sequence of provider    *)
(* calls, each wrapped in try/except, followed by the derivation of the    *)
(* rates and of the summary sentence.                                      *)
(*                                                                         *)
(* Python values.  An optional value is a sequence of length at most one:  *)
(* None is <<>> and a present value v is <<v>>.  A dict is a record.       *)
(* Prices are kept in cents.  The float rates daily_sales, weekly_sales    *)
(* and days_to_clear are kept as exact fractions [num, den].               *)
(*                                                                         *)
(* Providers.  compute_metrics looks its eight providers up as module      *)
(* globals at call time.  With the module's own functions bound (patched   *)
(* is FALSE) a provider raises or returns what its code can return; the    *)
(* tests rebind the globals to doubles (patched is TRUE), which may also   *)
(* return None in place of a dict, a null count or a card with no name.    *)
(*                                                                         *)
(* Specifications.  Spec and SpecPatched follow the sequential call;       *)
(* SpecAgain lets the caller repeat it; SpecAnyOrder runs the provider     *)
(* blocks of one call in any order; SpecChase is get_top_chase_cards on    *)
(* the candidates parsed from a set page; SpecReprint is                   *)
(* check_reprint_news around its snscrape subprocess.                      *)
(*                                                                         *)
(* Boundaries.  SpecServer serves one POST to /analyze or /mcp             *)
(* (mcp/server.py with the adapter of mcp/adapter.py); SpecSocket is one   *)
(* connection to /mcp/ws; SpecBridge is the loop of                        *)
(* scripts/mcp_stdio_bridge.py over the lines of its standard input.  The  *)
(* output of the bridge and of the socket is kept per input line or        *)
(* message: stdout[i] holds what was written while the i-th line was       *)
(* handled, so the stream itself is their concatenation.                   *)
(***************************************************************************)
EXTENDS Integers, Sequences, FiniteSets, TLC

VARIABLES patched, again, pc, set_name, box_price, ebay, listings, info, top,
          top_card_name, psa, reprint, sentiment, parts, report, env, trace,
          candidates, top_n,
          proc, req, resp, provider, explained, stdin, stdout, ws_in, ws_out

\* what lies around the engine: the snscrape subprocess, the HTTP request
\* being served with the adapter it uses, the bridge's streams, the socket
periphery == <<proc, req, resp, provider, explained, stdin, stdout, ws_in, ws_out>>

vars == <<patched, again, pc, set_name, box_price, ebay, listings, info, top,
          top_card_name, psa, reprint, sentiment, parts, report, env, trace,
          candidates, top_n, periphery>>

None == <<>>
Some(v) == <<v>>

\* ------------------------------------------------------------------ bounds
\* largest small count_sold / listings_count a provider reports, beside the
\* values of the repository's end-to-end test (14 sold, 28 listed) and the
\* 42 sold of the summary example (9.8 a week)
MaxSold == 1
MaxListings == 0
\* longest list of candidates parsed from a set page, and largest top_n asked
MaxCandidates == 3
MaxTopN == 2

\* most lines of output read from the snscrape subprocess
MaxStdout == 2

\* most lines a client writes to the bridge
MaxStdin == 2

\* most messages a client sends over the socket
MaxMessages == 2

\* ------------------------------------------------------- provider outcomes
\* A provider call either raises or returns a value.  A dict provider that
\* returns None instead of a dict is the malformed response of a double.
Raise == [raises |-> TRUE, val |-> None]
Return(v) == [raises |-> FALSE, val |-> v]

Names == {"Test Set", "Base"}

Prices == {0, 15000}
PriceOutcomes == {Raise, Return(None)} \cup {Return(Some(p)) : p \in Prices}

\* what only a double returns
Double(S) == IF patched THEN S ELSE {}

SoldCounts == (0 .. MaxSold) \cup {14, 42}
SalesDict(c) ==
    [count_sold |-> c, avg_price |-> IF c = None \/ c = Some(0) THEN None ELSE Some(14000)]
SalesOutcomes ==
    {Raise} \cup {Return(Some(SalesDict(Some(n)))) : n \in SoldCounts}
        \cup Double({Return(None), Return(Some(SalesDict(None)))})

ListingCounts == (0 .. MaxListings) \cup {28}
SupplyOutcomes ==
    {Raise}
        \cup {Return(Some([listings_count |-> c])) :
                  c \in {None} \cup {Some(n) : n \in ListingCounts}}
        \cup Double({Return(None)})

InfoOutcomes ==
    {Raise,
     Return(Some([num_cards |-> Some(60), release_date |-> Some("January 1, 2020")]))}
        \cup Double({Return(None)})

Card(n, p) == [name |-> n, price |-> p]
RECURSIVE SumPrices(_)
SumPrices(cs) == IF cs = <<>> THEN 0 ELSE Head(cs).price + SumPrices(Tail(cs))
ChaseDict(cs) ==
    [top_cards |-> cs,
     sum_top |-> SumPrices(cs),
     avg_top |-> IF cs = <<>> THEN None
                 ELSE Some([num |-> SumPrices(cs), den |-> Len(cs)])]
CardLists == {<<>>, <<Card("Top", 5000)>>, <<Card("Top", 5000), Card("Second", 2050)>>}
ChaseOutcomes ==
    {Raise} \cup {Return(Some(ChaseDict(cs))) : cs \in CardLists}
        \cup Double({Return(None), Return(Some(ChaseDict(<<Card("", 5000)>>)))})

PsaOutcomes ==
    {Raise} \cup {Return(Some([psa10 |-> c])) : c \in {None, Some(0), Some(10)}}
        \cup Double({Return(None)})

ReprintDict(w, m, n) == [warning |-> w, matches |-> m, note |-> n]
ReprintOutcomes ==
    Double({Return(None)}) \cup
    {Raise,
     Return(Some(ReprintDict(FALSE, <<>>, None))),
     Return(Some(ReprintDict(TRUE, <<"Possible reprint announced">>, None))),
     Return(Some(ReprintDict(FALSE, <<>>,
                             Some("snscrape not available; check not performed"))))}

SentimentDict(p, c) == [avg_polarity |-> p, classification |-> c, sample |-> <<>>]
SentimentOutcomes ==
    {Raise,
     Return(Some(SentimentDict(Some(5), "mostly positive")))}
        \cup Double({Return(None)})

\* ------------------------------------------------- the except: fallbacks
PriceFallback == None
SalesFallback == Some([count_sold |-> Some(0), avg_price |-> None])
SupplyFallback == Some([listings_count |-> None])
InfoFallback == Some([num_cards |-> None, release_date |-> None])
ChaseFallback == Some([top_cards |-> <<>>, sum_top |-> 0, avg_top |-> None])
\* the population fallback as the null of a skipped lookup
PsaFallbackSkipped == None

PsaFallback == Some([psa10 |-> None])
ReprintFallback == Some(ReprintDict(FALSE, <<>>, Some("check failed")))
SentimentFallback == Some(SentimentDict(None, "unknown"))

\* the call without its try/except: nothing is bound when it raises
TryCallUncaught(o, fallback) == o.val

\* try: x = provider(...)  except Exception: x = fallback
TryCall(o, fallback) == IF o.raises THEN fallback ELSE o.val

\* ---------------------------------------------------- number formatting
\* a float rate as an exact fraction
Frac(n, d) == [num |-> n, den |-> d]

\* the float rounded up
PyIntCeil(x) == (x.num + x.den - 1) \div x.den

\* int(x) of a non-negative float: truncation
PyInt(x) == x.num \div x.den

\* f"{float(p):.2f}" of a price of c cents
Fmt2f(c) ==
    ToString(c \div 100) \o "."
        \o (IF c % 100 < 10 THEN "0" ELSE "") \o ToString(c % 100)

\* str(p) of the float price of c cents, as an f-string renders it: the
\* shortest decimal, with at least one digit after the point
PyFloatStr(c) ==
    ToString(c \div 100) \o "."
        \o (IF c % 10 = 0 THEN ToString((c % 100) \div 10)
            ELSE (IF c % 100 < 10 THEN "0" ELSE "") \o ToString(c % 100))

\* ", ".join(parts)
RECURSIVE Join(_)
Join(ps) ==
    IF ps = <<>> THEN ""
    ELSE IF Len(ps) = 1 THEN ps[1]
    ELSE ps[1] \o ", " \o Join(Tail(ps))

\* ------------------------------------------------------- derived metrics
\* d.get(key) or 0
OrZero(x) == IF x = None \/ x = Some(0) THEN 0 ELSE x[1]

days_window == 30

\* the monthly count spread over a week
DailySalesWeek(sold_count_30d) ==
    IF sold_count_30d # 0 THEN Frac(sold_count_30d, 7) ELSE Frac(0, 1)

\* sold_count_30d / days_window if sold_count_30d else 0.0
DailySales(sold_count_30d) ==
    IF sold_count_30d # 0 THEN Frac(sold_count_30d, days_window) ELSE Frac(0, 1)

\* daily_sales * 7
WeeklySales(daily_sales) == Frac(daily_sales.num * 7, daily_sales.den)

\* 0.0 in place of None when nothing sells
DaysToClearZero(listings_count, daily_sales) ==
    IF daily_sales.num > 0
    THEN Some(Frac(listings_count * daily_sales.den, daily_sales.num))
    ELSE Some(Frac(0, 1))

\* the listings over the weekly rate
DaysToClearWeekly(listings_count, daily_sales) ==
    IF daily_sales.num > 0
    THEN Some(Frac(listings_count * daily_sales.den, daily_sales.num * 7))
    ELSE None

\* None when no listing is counted
DaysToClearListed(listings_count, daily_sales) ==
    IF daily_sales.num > 0 /\ listings_count > 0
    THEN Some(Frac(listings_count * daily_sales.den, daily_sales.num))
    ELSE None

\* days_to_clear = None; if daily_sales > 0: listings_count / daily_sales
DaysToClear(listings_count, daily_sales) ==
    IF daily_sales.num > 0
    THEN Some(Frac(listings_count * daily_sales.den, daily_sales.num))
    ELSE None

\* --------------------------------------------------------- summary clauses
BoxPriceClause(bp) ==
    IF bp # None /\ bp[1] # 0
    THEN "current box price $" \o Fmt2f(bp[1])
    ELSE "current box price N/A"

\* the weekly rate rounded to the nearest integer
SoldClauseRounded(weekly_sales) ==
    "~" \o ToString((2 * weekly_sales.num + weekly_sales.den) \div (2 * weekly_sales.den))
        \o " sold/week on eBay"

SoldClause(weekly_sales) == "~" \o ToString(PyInt(weekly_sales)) \o " sold/week on eBay"

ListingsClause(listings_count) == ToString(listings_count) \o " listings on market"

DaysClause(days_to_clear) ==
    IF days_to_clear = None THEN "days-to-clear: N/A"
    ELSE "~" \o ToString(PyInt(days_to_clear[1])) \o " days to clear"

\* the clause made from the last card of the list
TopClauseLast(tp) ==
    IF tp[1].top_cards # <<>>
    THEN <<"top card " \o tp[1].top_cards[Len(tp[1].top_cards)].name \o " ~$"
               \o PyFloatStr(tp[1].top_cards[Len(tp[1].top_cards)].price)>>
    ELSE <<>>

\* appended only when top.get("top_cards") is a non-empty list
TopClause(tp) ==
    IF tp[1].top_cards # <<>>
    THEN <<"top card " \o tp[1].top_cards[1].name \o " ~$"
               \o PyFloatStr(tp[1].top_cards[1].price)>>
    ELSE <<>>

\* a truthiness test of the count: a count of 0 is not shown
PsaClauseTruthy(ps) ==
    IF ps # None /\ ps[1].psa10 # None /\ ps[1].psa10[1] # 0
    THEN <<"PSA10 pop " \o ToString(ps[1].psa10[1])>>
    ELSE <<>>

\* appended only when psa is truthy and psa.get("psa10") is not None
PsaClause(ps) ==
    IF ps # None /\ ps[1].psa10 # None
    THEN <<"PSA10 pop " \o ToString(ps[1].psa10[1])>>
    ELSE <<>>

SentimentClause(sn) == "sentiment: " \o sn[1].classification

\* a check that did not run counted as a warning
ReprintClauseNoted(rp) ==
    "reprint risk: " \o (IF rp[1].warning \/ rp[1].note # None THEN "HIGH" ELSE "low")

ReprintClause(rp) == "reprint risk: " \o (IF rp[1].warning THEN "HIGH" ELSE "low")

\* the sentiment clause put before the card clauses
BuildPartsSentimentFirst(bp, weekly_sales, listings_count, days_to_clear, tp, ps, sn, rp) ==
    <<BoxPriceClause(bp), SoldClause(weekly_sales), ListingsClause(listings_count),
      DaysClause(days_to_clear), SentimentClause(sn)>>
        \o TopClause(tp) \o PsaClause(ps)
        \o <<ReprintClause(rp)>>

\* a summary that gives the card clauses only beside a known box price
BuildPartsPriced(bp, weekly_sales, listings_count, days_to_clear, tp, ps, sn, rp) ==
    <<BoxPriceClause(bp), SoldClause(weekly_sales), ListingsClause(listings_count),
      DaysClause(days_to_clear)>>
        \o (IF bp = None THEN <<>> ELSE TopClause(tp) \o PsaClause(ps))
        \o <<SentimentClause(sn), ReprintClause(rp)>>

BuildParts(bp, weekly_sales, listings_count, days_to_clear, tp, ps, sn, rp) ==
    <<BoxPriceClause(bp), SoldClause(weekly_sales), ListingsClause(listings_count),
      DaysClause(days_to_clear)>>
        \o TopClause(tp) \o PsaClause(ps)
        \o <<SentimentClause(sn), ReprintClause(rp)>>

\* ---------------------------------------------------- lines 690 to 741
\* .get on a None raises AttributeError, outside every try
DeriveRaises(eb, ls, tp, sn, rp) ==
    eb = None \/ ls = None \/ tp = None \/ sn = None \/ rp = None

Derive(name, bp, eb, ls, inf, tp, ps, rp, sn) ==
    IF DeriveRaises(eb, ls, tp, sn, rp)
    THEN [raised |-> TRUE, parts |-> <<>>, report |-> None]
    ELSE
        LET sold_count_30d == OrZero(eb[1].count_sold)
            daily_sales == DailySales(sold_count_30d)
            weekly_sales == WeeklySales(daily_sales)
            listings_count == OrZero(ls[1].listings_count)
            days_to_clear == DaysToClear(listings_count, daily_sales)
            ps_ == BuildParts(bp, weekly_sales, listings_count, days_to_clear,
                              tp, ps, sn, rp)
        IN  [raised |-> FALSE,
             parts |-> ps_,
             report |-> Some(
                 [box_price |-> bp,
                  sold_count_30d |-> sold_count_30d,
                  daily_sales |-> daily_sales,
                  weekly_sales |-> weekly_sales,
                  listings_count |-> listings_count,
                  days_to_clear |-> days_to_clear,
                  top_chase |-> tp,
                  psa |-> ps,
                  reprint |-> rp,
                  sentiment |-> sn,
                  set_info |-> inf,
                  summary |-> name \o ": " \o Join(ps_)])]

\* the name of the last card, as if the list were sorted by rising price
TopCardNameLast(tp) ==
    IF tp[1].top_cards # <<>>
    THEN Some(tp[1].top_cards[Len(tp[1].top_cards)].name)
    ELSE None

\* a placeholder name when there is no card
TopCardNameDefault(tp) ==
    IF tp[1].top_cards # <<>> THEN Some(tp[1].top_cards[1].name) ELSE Some("N/A")

\* top_card_name = None; if top.get("top_cards"): top["top_cards"][0].get("name")
TopCardName(tp) ==
    IF tp[1].top_cards # <<>> THEN Some(tp[1].top_cards[1].name) ELSE None

\* if top_card_name is not None:
TruthyNotNone(n) == n # None

\* if top_card_name:
Truthy(n) == n # None /\ n[1] # ""

\* ------------------------------------------------------------- the call
Providers ==
    {"scrape_price_data", "scrape_ebay_sales", "scrape_tcgplayer_listings",
     "get_set_info", "get_top_chase_cards", "get_psa_population",
     "check_reprint_news", "analyze_sentiment"}

NoEnv == [p \in Providers |-> Return(None)]

Call(fn, arg) == [fn |-> fn, arg |-> arg]

Idle ==
    /\ again = FALSE
    /\ pc = "idle"
    /\ set_name = ""
    /\ box_price = None
    /\ ebay = None
    /\ listings = None
    /\ info = None
    /\ top = None
    /\ top_card_name = None
    /\ psa = None
    /\ reprint = None
    /\ sentiment = None
    /\ parts = <<>>
    /\ report = None
    /\ env = NoEnv
    /\ trace = <<>>

\* no page is being parsed; top_n is the default of get_top_chase_cards
NoPage == candidates = <<>> /\ top_n = 5

\* no subprocess has run, no request is being served, the streams are empty
\* and AI_PROVIDER is not set
Detached ==
    /\ proc = None
    /\ req = None
    /\ resp = None
    /\ provider = None
    /\ explained = None
    /\ stdin = <<>>
    /\ stdout = <<>>
    /\ ws_in = <<>>
    /\ ws_out = <<>>

\* the module as imported
Init == patched = FALSE /\ Idle /\ NoPage /\ Detached

\* the module with its provider globals rebound to doubles
InitPatched == patched = TRUE /\ Idle /\ NoPage /\ Detached

\* a caller invokes compute_metrics(set_name): fresh locals
Start ==
    /\ pc \in {"idle", "done", "raised"}
    /\ \E n \in Names : set_name' = n
    /\ pc' = "price"
    /\ box_price' = None
    /\ ebay' = None
    /\ listings' = None
    /\ info' = None
    /\ top' = None
    /\ top_card_name' = None
    /\ psa' = None
    /\ reprint' = None
    /\ sentiment' = None
    /\ parts' = <<>>
    /\ report' = None
    /\ env' = NoEnv
    /\ trace' = <<>>
    /\ UNCHANGED <<patched, again, candidates, top_n, periphery>>

\* a price remembered from the call before and not fetched again
StartAgainCachedPrice ==
    /\ pc \in {"done", "raised"}
    /\ \E n \in Names : set_name' = n
    /\ pc' = IF box_price # None THEN "sales" ELSE "price"
    /\ box_price' = box_price
    /\ ebay' = None
    /\ listings' = None
    /\ info' = None
    /\ top' = None
    /\ top_card_name' = None
    /\ psa' = None
    /\ reprint' = None
    /\ sentiment' = None
    /\ parts' = <<>>
    /\ report' = None
    /\ env' = NoEnv
    /\ trace' = <<>>
    /\ again' = TRUE
    /\ UNCHANGED <<patched, candidates, top_n, periphery>>

\* the caller of a call that has ended calls compute_metrics once more;
\* again marks the calls made this way
StartAgain ==
    /\ pc \in {"done", "raised"}
    /\ \E n \in Names : set_name' = n
    /\ pc' = "price"
    /\ box_price' = None
    /\ ebay' = None
    /\ listings' = None
    /\ info' = None
    /\ top' = None
    /\ top_card_name' = None
    /\ psa' = None
    /\ reprint' = None
    /\ sentiment' = None
    /\ parts' = <<>>
    /\ report' = None
    /\ env' = NoEnv
    /\ trace' = <<>>
    /\ again' = TRUE
    /\ UNCHANGED <<patched, candidates, top_n, periphery>>

\* what a provider call leaves behind: its outcome and the call itself
Invoke(fn, arg, o) ==
    /\ env' = [env EXCEPT ![fn] = o]
    /\ trace' = Append(trace, Call(fn, arg))

CallPrice ==
    /\ pc = "price"
    /\ \E o \in PriceOutcomes :
        /\ Invoke("scrape_price_data", set_name, o)
        /\ box_price' = TryCall(o, PriceFallback)
    /\ pc' = "sales"
    /\ UNCHANGED <<patched, again, candidates, top_n, periphery,
                   set_name, ebay, listings, info, top, top_card_name, psa,
                   reprint, sentiment, parts, report>>

\* the sales call made again for as long as it raises
CallSalesRetry ==
    /\ pc = "sales"
    /\ \E o \in SalesOutcomes :
        /\ Invoke("scrape_ebay_sales", set_name \o " booster box", o)
        /\ ebay' = TryCall(o, SalesFallback)
        /\ pc' = IF o.raises THEN "sales" ELSE "supply"
    /\ UNCHANGED <<patched, again, candidates, top_n, periphery,
                   set_name, box_price, listings, info, top, top_card_name, psa,
                   reprint, sentiment, parts, report>>

CallSales ==
    /\ pc = "sales"
    /\ \E o \in SalesOutcomes :
        /\ Invoke("scrape_ebay_sales", set_name \o " booster box", o)
        /\ ebay' = TryCall(o, SalesFallback)
    /\ pc' = "supply"
    /\ UNCHANGED <<patched, again, candidates, top_n, periphery,
                   set_name, box_price, listings, info, top, top_card_name, psa,
                   reprint, sentiment, parts, report>>

CallSupply ==
    /\ pc = "supply"
    /\ \E o \in SupplyOutcomes :
        /\ Invoke("scrape_tcgplayer_listings", set_name \o " booster box", o)
        /\ listings' = TryCall(o, SupplyFallback)
    /\ pc' = "info"
    /\ UNCHANGED <<patched, again, candidates, top_n, periphery,
                   set_name, box_price, ebay, info, top, top_card_name, psa,
                   reprint, sentiment, parts, report>>

CallInfo ==
    /\ pc = "info"
    /\ \E o \in InfoOutcomes :
        /\ Invoke("get_set_info", set_name, o)
        /\ info' = TryCall(o, InfoFallback)
    /\ pc' = "chase"
    /\ UNCHANGED <<patched, again, candidates, top_n, periphery,
                   set_name, box_price, ebay, listings, top, top_card_name, psa,
                   reprint, sentiment, parts, report>>

CallChase ==
    /\ pc = "chase"
    /\ \E o \in ChaseOutcomes :
        /\ Invoke("get_top_chase_cards", set_name, o)
        /\ top' = TryCall(o, ChaseFallback)
    /\ pc' = "topname"
    /\ UNCHANGED <<patched, again, candidates, top_n, periphery,
                   set_name, box_price, ebay, listings, info, top_card_name, psa,
                   reprint, sentiment, parts, report>>

\* lines 669 to 671; top.get on a None raises
PickTopCard ==
    /\ pc = "topname"
    /\ IF top = None
       THEN /\ pc' = "raised"
            /\ UNCHANGED top_card_name
       ELSE /\ pc' = "psa"
            /\ top_card_name' = TopCardName(top)
    /\ UNCHANGED <<patched, again, candidates, top_n, periphery,
                   set_name, box_price, ebay, listings, info, top, psa,
                   reprint, sentiment, parts, report, env, trace>>

\* lines 673 to 678, top_card_name truthy
CallPsa ==
    /\ pc = "psa"
    /\ Truthy(top_card_name)
    /\ \E o \in PsaOutcomes :
        /\ Invoke("get_psa_population", top_card_name[1], o)
        /\ psa' = TryCall(o, PsaFallback)
    /\ pc' = "reprint"
    /\ UNCHANGED <<patched, again, candidates, top_n, periphery,
                   set_name, box_price, ebay, listings, info, top, top_card_name,
                   reprint, sentiment, parts, report>>

\* the skipped lookup bound to the fallback record
SkipPsaFallback ==
    /\ pc = "psa"
    /\ ~Truthy(top_card_name)
    /\ psa' = PsaFallback
    /\ pc' = "reprint"
    /\ UNCHANGED <<patched, again, candidates, top_n, periphery,
                   set_name, box_price, ebay, listings, info, top, top_card_name,
                   reprint, sentiment, parts, report, env, trace>>

\* lines 673 to 674, top_card_name falsy: psa stays None
SkipPsa ==
    /\ pc = "psa"
    /\ ~Truthy(top_card_name)
    /\ psa' = None
    /\ pc' = "reprint"
    /\ UNCHANGED <<patched, again, candidates, top_n, periphery,
                   set_name, box_price, ebay, listings, info, top, top_card_name,
                   reprint, sentiment, parts, report, env, trace>>

CallReprint ==
    /\ pc = "reprint"
    /\ \E o \in ReprintOutcomes :
        /\ Invoke("check_reprint_news", set_name, o)
        /\ reprint' = TryCall(o, ReprintFallback)
    /\ pc' = "sentiment"
    /\ UNCHANGED <<patched, again, candidates, top_n, periphery,
                   set_name, box_price, ebay, listings, info, top, top_card_name,
                   psa, sentiment, parts, report>>

CallSentiment ==
    /\ pc = "sentiment"
    /\ \E o \in SentimentOutcomes :
        /\ Invoke("analyze_sentiment", set_name, o)
        /\ sentiment' = TryCall(o, SentimentFallback)
    /\ pc' = "derive"
    /\ UNCHANGED <<patched, again, candidates, top_n, periphery,
                   set_name, box_price, ebay, listings, info, top, top_card_name,
                   psa, reprint, parts, report>>

\* lines 690 to 741: the derived metrics, the summary and the return
DeriveAndReturn ==
    /\ pc = "derive"
    /\ LET d == Derive(set_name, box_price, ebay, listings, info, top, psa,
                       reprint, sentiment)
       IN  /\ pc' = IF d.raised THEN "raised" ELSE "done"
           /\ parts' = d.parts
           /\ report' = d.report
    /\ UNCHANGED <<patched, again, candidates, top_n, periphery,
                   set_name, box_price, ebay, listings, info, top, top_card_name,
                   psa, reprint, sentiment, env, trace>>

Next ==
    \/ Start
    \/ CallPrice
    \/ CallSales
    \/ CallSupply
    \/ CallInfo
    \/ CallChase
    \/ PickTopCard
    \/ CallPsa
    \/ SkipPsa
    \/ CallReprint
    \/ CallSentiment
    \/ DeriveAndReturn

Spec == Init /\ [][Next]_vars

SpecPatched == InitPatched /\ [][Next]_vars

\* calls repeated by their caller
NextAgain == StartAgain \/ Next

SpecAgain == Init /\ [][NextAgain]_vars

\* how often, and whether, provider fn was called in the current call
Count(fn) == Cardinality({i \in DOMAIN trace : trace[i].fn = fn})
Called(fn) == Count(fn) > 0
\* ------------------------------------------- the providers in any order
\* Section 5 of the specification lets the seven unconditional try/except
\* blocks run in any order, or as concurrent tasks that complete in any
\* order, with the population lookup after the chase-card result.  Each
\* block below is the block of the sequential call, enabled as soon as the
\* call has started and its provider has not run.

\* the place of a provider in the sequential call
Position(fn) ==
    CASE fn = "scrape_price_data" -> 1
      [] fn = "scrape_ebay_sales" -> 2
      [] fn = "scrape_tcgplayer_listings" -> 3
      [] fn = "get_set_info" -> 4
      [] fn = "get_top_chase_cards" -> 5
      [] fn = "get_psa_population" -> 6
      [] fn = "check_reprint_news" -> 7
      [] fn = "analyze_sentiment" -> 8

\* calls that have no order among themselves are listed by provider
RECURSIVE InsertCall(_, _)
InsertCall(tr, c) ==
    IF tr = <<>> THEN <<c>>
    ELSE IF Position(c.fn) < Position(Head(tr).fn) THEN <<c>> \o tr
    ELSE <<Head(tr)>> \o InsertCall(Tail(tr), c)

InvokeUnordered(fn, arg, o) ==
    /\ env' = [env EXCEPT ![fn] = o]
    /\ trace' = InsertCall(trace, Call(fn, arg))

\* compute_metrics(set_name) entered, its provider blocks yet to run; one
\* call is followed
StartGather ==
    /\ pc = "idle"
    /\ \E n \in Names : set_name' = n
    /\ pc' = "gather"
    /\ box_price' = None
    /\ ebay' = None
    /\ listings' = None
    /\ info' = None
    /\ top' = None
    /\ top_card_name' = None
    /\ psa' = None
    /\ reprint' = None
    /\ sentiment' = None
    /\ parts' = <<>>
    /\ report' = None
    /\ env' = NoEnv
    /\ trace' = <<>>
    /\ again' = FALSE
    /\ UNCHANGED <<patched, candidates, top_n, periphery>>

GatherPrice ==
    /\ pc = "gather"
    /\ ~Called("scrape_price_data")
    /\ \E o \in PriceOutcomes :
        /\ InvokeUnordered("scrape_price_data", set_name, o)
        /\ box_price' = TryCall(o, PriceFallback)
    /\ UNCHANGED <<patched, again, candidates, top_n, periphery,
                   pc, set_name, ebay, listings, info, top, top_card_name, psa, reprint, sentiment,
                   parts, report>>

GatherSales ==
    /\ pc = "gather"
    /\ ~Called("scrape_ebay_sales")
    /\ \E o \in SalesOutcomes :
        /\ InvokeUnordered("scrape_ebay_sales", set_name \o " booster box", o)
        /\ ebay' = TryCall(o, SalesFallback)
    /\ UNCHANGED <<patched, again, candidates, top_n, periphery,
                   pc, set_name, box_price, listings, info, top, top_card_name, psa, reprint, sentiment,
                   parts, report>>

GatherSupply ==
    /\ pc = "gather"
    /\ ~Called("scrape_tcgplayer_listings")
    /\ \E o \in SupplyOutcomes :
        /\ InvokeUnordered("scrape_tcgplayer_listings", set_name \o " booster box", o)
        /\ listings' = TryCall(o, SupplyFallback)
    /\ UNCHANGED <<patched, again, candidates, top_n, periphery,
                   pc, set_name, box_price, ebay, info, top, top_card_name, psa, reprint, sentiment,
                   parts, report>>

GatherInfo ==
    /\ pc = "gather"
    /\ ~Called("get_set_info")
    /\ \E o \in InfoOutcomes :
        /\ InvokeUnordered("get_set_info", set_name, o)
        /\ info' = TryCall(o, InfoFallback)
    /\ UNCHANGED <<patched, again, candidates, top_n, periphery,
                   pc, set_name, box_price, ebay, listings, top, top_card_name, psa, reprint, sentiment,
                   parts, report>>

GatherChase ==
    /\ pc = "gather"
    /\ ~Called("get_top_chase_cards")
    /\ \E o \in ChaseOutcomes :
        /\ InvokeUnordered("get_top_chase_cards", set_name, o)
        /\ top' = TryCall(o, ChaseFallback)
    /\ UNCHANGED <<patched, again, candidates, top_n, periphery,
                   pc, set_name, box_price, ebay, listings, info, top_card_name, psa, reprint, sentiment,
                   parts, report>>

GatherReprint ==
    /\ pc = "gather"
    /\ ~Called("check_reprint_news")
    /\ \E o \in ReprintOutcomes :
        /\ InvokeUnordered("check_reprint_news", set_name, o)
        /\ reprint' = TryCall(o, ReprintFallback)
    /\ UNCHANGED <<patched, again, candidates, top_n, periphery,
                   pc, set_name, box_price, ebay, listings, info, top, top_card_name, psa, sentiment,
                   parts, report>>

GatherSentiment ==
    /\ pc = "gather"
    /\ ~Called("analyze_sentiment")
    /\ \E o \in SentimentOutcomes :
        /\ InvokeUnordered("analyze_sentiment", set_name, o)
        /\ sentiment' = TryCall(o, SentimentFallback)
    /\ UNCHANGED <<patched, again, candidates, top_n, periphery,
                   pc, set_name, box_price, ebay, listings, info, top, top_card_name,
                   psa, reprint,
                   parts, report>>

\* lines 669 to 678, once the chase-card result is bound and names a card
GatherPsa ==
    /\ pc = "gather"
    /\ Called("get_top_chase_cards")
    /\ ~Called("get_psa_population")
    /\ top # None
    /\ Truthy(TopCardName(top))
    /\ top_card_name' = TopCardName(top)
    /\ \E o \in PsaOutcomes :
        /\ InvokeUnordered("get_psa_population", TopCardName(top)[1], o)
        /\ psa' = TryCall(o, PsaFallback)
    /\ UNCHANGED <<patched, again, candidates, top_n, periphery,
                   pc, set_name, box_price, ebay, listings, info, top, reprint, sentiment,
                   parts, report>>

\* the derivation entered as soon as the seven unconditional blocks have run,
\* whether or not the population lookup has
AllBoundEarly ==
    /\ pc = "gather"
    /\ \A fn \in Providers \ {"get_psa_population"} : Called(fn)
    /\ top # None
    /\ top_card_name' = TopCardName(top)
    /\ pc' = "derive"
    /\ UNCHANGED <<patched, again, candidates, top_n, periphery,
                   set_name, box_price, ebay, listings, info, top, psa, reprint, sentiment,
                   parts, report, env, trace>>

\* line 690 is reached when every block has run: the seven unconditional
\* ones and, if the chase-card result names a card, the population lookup
AllBound ==
    /\ pc = "gather"
    /\ \A fn \in Providers \ {"get_psa_population"} : Called(fn)
    /\ top # None
    /\ Truthy(TopCardName(top)) => Called("get_psa_population")
    /\ top_card_name' = TopCardName(top)
    /\ pc' = "derive"
    /\ UNCHANGED <<patched, again, candidates, top_n, periphery,
                   set_name, box_price, ebay, listings, info, top, psa, reprint, sentiment,
                   parts, report, env, trace>>

NextAnyOrder ==
    \/ StartGather
    \/ GatherPrice
    \/ GatherSales
    \/ GatherSupply
    \/ GatherInfo
    \/ GatherChase
    \/ GatherPsa
    \/ GatherReprint
    \/ GatherSentiment
    \/ AllBound
    \/ DeriveAndReturn

SpecAnyOrder == Init /\ [][NextAnyOrder]_vars

\* ------------------------------------------------- get_top_chase_cards
\* The candidates are the (name, price) pairs the two scans of the set page
\* append, in page order; a page that could not be fetched, or that yields
\* none, gives the same empty result.
CandNames == {"A", "B"}
CandPrices == {1000, 3000, 5000}
Candidates == {Card(n, p) : n \in CandNames, p \in CandPrices}
CandidateLists == UNION {[1 .. k -> Candidates] : k \in 0 .. MaxCandidates}

\* dedup is a dict: its keys in insertion order, each with its price
HasName(d, n) == \E i \in DOMAIN d : d[i].name = n
PriceOf(d, n) == d[CHOOSE i \in DOMAIN d : d[i].name = n].price
Put(d, n, p) == [i \in DOMAIN d |-> IF d[i].name = n THEN Card(n, p) ELSE d[i]]

\* the price seen last kept for a name
RECURSIVE DedupLastSeen(_, _)
DedupLastSeen(cs, d) ==
    IF cs = <<>> THEN d
    ELSE LET c == Head(cs)
         IN  DedupLastSeen(Tail(cs),
                           IF ~HasName(d, c.name) THEN Append(d, c)
                           ELSE Put(d, c.name, c.price))

\* for c in candidates: if n not in dedup or p > dedup[n]: dedup[n] = p
RECURSIVE Dedup(_, _)
Dedup(cs, d) ==
    IF cs = <<>> THEN d
    ELSE LET c == Head(cs)
         IN  Dedup(Tail(cs),
                   IF ~HasName(d, c.name) THEN Append(d, c)
                   ELSE IF c.price > PriceOf(d, c.name) THEN Put(d, c.name, c.price)
                   ELSE d)

\* c put behind the items priced at least as high
RECURSIVE InsertDesc(_, _)
InsertDesc(sorted, c) ==
    IF sorted = <<>> THEN <<c>>
    ELSE IF Head(sorted).price >= c.price
         THEN <<Head(sorted)>> \o InsertDesc(Tail(sorted), c)
         ELSE <<c>> \o sorted

\* the items in dict order, unsorted
SortUnsorted(items) == items

\* items.sort(key=price, reverse=True): stable, equal prices keep their order
RECURSIVE SortByPriceDesc(_)
SortByPriceDesc(items) ==
    IF items = <<>> THEN <<>>
    ELSE InsertDesc(SortByPriceDesc(SubSeq(items, 1, Len(items) - 1)),
                    items[Len(items)])

\* items[:top_n] for top_n >= 0
TakeTop(items, n) == SubSeq(items, 1, IF n < Len(items) THEN n ELSE Len(items))

\* get_top_chase_cards(set_name, top_n) called on its own, as the test does
GetTopChaseCards ==
    /\ pc = "idle"
    /\ top' = Some(ChaseDict(TakeTop(SortByPriceDesc(Dedup(candidates, <<>>)), top_n)))
    /\ pc' = "returned"
    /\ UNCHANGED <<patched, again, candidates, top_n, periphery,
                   set_name, box_price, ebay, listings, info, top_card_name, psa,
                   reprint, sentiment, parts, report, env, trace>>

\* a set page has been fetched and scanned
InitChase ==
    /\ patched = FALSE
    /\ Idle
    /\ candidates \in CandidateLists
    /\ top_n \in 0 .. MaxTopN
    /\ Detached

NextChase == GetTopChaseCards

SpecChase == InitChase /\ [][NextChase]_vars

\* ------------------------------------------------- check_reprint_news
\* the snscrape CLI run by subprocess.run: the run raises (the executable is
\* missing, or the 15 s timeout expires) or completes with an exit code and
\* the lines of its standard output
TweetLine ==
    "{\"content\":\"Possible reprint announced\",\"user\":{\"username\":\"user1\"},\"id\":\"123\"}"

RawContentLine == "{\"rawContent\":\"Base reprint?\"}"

StdoutLines == {TweetLine, RawContentLine, "[]", "Traceback (most recent call last):"}

RECURSIVE SeqsUpTo(_, _)
SeqsUpTo(S, n) ==
    IF n = 0 THEN {<<>>}
    ELSE LET shorter == SeqsUpTo(S, n - 1)
         IN  shorter \cup {Append(q, x) : q \in shorter, x \in S}

ProcOutcomes ==
    {[raises |-> Some(x), returncode |-> 0, stdout |-> <<>>] : x \in {"FileNotFoundError", "TimeoutExpired"}}
        \cup {[raises |-> None, returncode |-> c, stdout |-> out] :
                  c \in {0, 1}, out \in SeqsUpTo(StdoutLines, MaxStdout)}

\* one line of the output: json.loads and the .get calls; a line that is not
\* a JSON object raises and is skipped
ParseTweet(line) ==
    CASE line = TweetLine ->
             Some([source |-> Some("https://twitter.com/user1/status/123"),
                   text |-> "Possible reprint announced"])
      [] line = RawContentLine -> Some([source |-> None, text |-> "Base reprint?"])
      [] OTHER -> None

\* for line in proc.stdout.splitlines(): results.append(...)
RECURSIVE ParseStdout(_)
ParseStdout(lines) ==
    IF lines = <<>> THEN <<>>
    ELSE ParseTweet(Head(lines)) \o ParseStdout(Tail(lines))

ReprintUnavailable ==
    ReprintDict(FALSE, <<>>, Some("snscrape not available; check not performed"))

\* lines 486 to 507 once subprocess.run has returned
ReprintResult(p) ==
    LET results == IF p.returncode = 0 /\ p.stdout # <<>>
                   THEN ParseStdout(p.stdout)
                   ELSE <<>>
    IN  IF results # <<>>
        THEN ReprintDict(TRUE, results, None)
        ELSE ReprintDict(FALSE, <<>>, None)

\* a caller invokes check_reprint_news(set_name)
CallCheckReprint ==
    /\ pc = "idle"
    /\ set_name' \in Names
    /\ pc' = "snscrape"
    /\ UNCHANGED <<patched, again, candidates, top_n, periphery,
                   box_price, ebay, listings, info, top, top_card_name, psa,
                   reprint, sentiment, parts, report, env, trace>>

\* proc = subprocess.run(cmd, capture_output=True, text=True, timeout=15)
SubprocessRun ==
    /\ pc = "snscrape"
    /\ \E o \in ProcOutcomes :
        /\ proc' = Some(o)
        /\ IF o.raises # None
           THEN reprint' = Some(ReprintUnavailable) /\ pc' = "returned"
           ELSE reprint' = reprint /\ pc' = "parse"
    /\ UNCHANGED <<patched, again, candidates, top_n,
                   req, resp, provider, explained, stdin, stdout, ws_in, ws_out,
                   set_name, box_price, ebay, listings, info, top, top_card_name,
                   psa, sentiment, parts, report, env, trace>>

\* the output is parsed and the result returned
ReturnReprint ==
    /\ pc = "parse"
    /\ reprint' = Some(ReprintResult(proc[1]))
    /\ pc' = "returned"
    /\ UNCHANGED <<patched, again, candidates, top_n, periphery,
                   set_name, box_price, ebay, listings, info, top, top_card_name,
                   psa, sentiment, parts, report, env, trace>>

NextReprint == CallCheckReprint \/ SubprocessRun \/ ReturnReprint

SpecReprint == Init /\ [][NextReprint]_vars

\* compute_metrics as a function of the subject and of what each provider
\* does when called: the composition of the steps of the sequential call
RunAll(name, e) ==
    LET bp == TryCall(e["scrape_price_data"], PriceFallback)
        eb == TryCall(e["scrape_ebay_sales"], SalesFallback)
        ls == TryCall(e["scrape_tcgplayer_listings"], SupplyFallback)
        inf == TryCall(e["get_set_info"], InfoFallback)
        tp == TryCall(e["get_top_chase_cards"], ChaseFallback)
    IN  IF tp = None
        THEN [raised |-> TRUE, parts |-> <<>>, report |-> None]
        ELSE LET ps == IF Truthy(TopCardName(tp))
                       THEN TryCall(e["get_psa_population"], PsaFallback)
                       ELSE None
                 rp == TryCall(e["check_reprint_news"], ReprintFallback)
                 sn == TryCall(e["analyze_sentiment"], SentimentFallback)
             IN  Derive(name, bp, eb, ls, inf, tp, ps, rp, sn)

\* ------------------------------------------------------- the AI adapter
\* the f-string of adapter.py lines 32 to 35 (tail "total value") and of
\* lines 55 to 58 (tail "total")
ExplainText(m, tail) ==
    "Box price: " \o (IF m.box_price = None THEN "None" ELSE PyFloatStr(m.box_price[1]))
        \o ". 30-day sold: " \o ToString(m.sold_count_30d)
        \o ". Top cards " \o tail \o ": " \o PyFloatStr(m.top_chase[1].sum_top) \o "."

\* for i in range(0, len(text), 30): yield text[i : i + 30]
RECURSIVE Chunks(_)
Chunks(text) ==
    IF Len(text) = 0 THEN <<>>
    ELSE IF Len(text) <= 30 THEN <<text>>
    ELSE <<SubSeq(text, 1, 30)>> \o Chunks(SubSeq(text, 31, Len(text)))

\* "".join(parts)
RECURSIVE Concat(_)
Concat(ps) == IF ps = <<>> THEN "" ELSE Head(ps) \o Concat(Tail(ps))

\* stream_explain: the chunks, or NotImplementedError once a provider is set
StreamExplain(m, prov) ==
    IF prov = None
    THEN [raises |-> FALSE, val |-> Chunks(ExplainText(m, "total value"))]
    ELSE [raises |-> TRUE, val |-> <<>>]

\* explain: the stream collected; NotImplementedError is a RuntimeError and is
\* answered by the non-streaming text
Explain(m, prov) ==
    LET st == StreamExplain(m, prov)
    IN  IF st.raises THEN ExplainText(m, "total") ELSE Concat(st.val)

\* what adapter.explain does: its own text, or what a double installed by a
\* test does (a text, or an exception, val then holding str(e))
ExplainOutcomes(m, prov) ==
    {Return(Some(Explain(m, prov)))}
        \cup Double({Return(Some("AI summary")),
                     [raises |-> TRUE, val |-> Some("explain failed")]})

\* ---------------------------------------------------- the HTTP endpoints
\* the providers of the end-to-end test
EndToEndEnv ==
    [p \in Providers |->
        CASE p = "scrape_price_data" -> Return(Some(15000))
          [] p = "scrape_ebay_sales" -> Return(Some(SalesDict(Some(14))))
          [] p = "scrape_tcgplayer_listings" -> Return(Some([listings_count |-> Some(28)]))
          [] p = "get_set_info" ->
                 Return(Some([num_cards |-> Some(60),
                              release_date |-> Some("January 1, 2020")]))
          [] p = "get_top_chase_cards" -> Return(Some(ChaseDict(<<Card("Top", 5000)>>)))
          [] p = "get_psa_population" -> Return(Some([psa10 |-> Some(10)]))
          [] p = "check_reprint_news" -> Return(Some(ReprintDict(FALSE, <<>>, None)))
          [] OTHER -> Return(Some(SentimentDict(Some(5), "mostly positive")))]

\* compute_metrics(name) returns a report (every provider failing, or the
\* providers of the test); only a double raises
EngineOutcomes(name) ==
    {Return(RunAll(name, e).report) : e \in {[p \in Providers |-> Raise], EndToEndEnv}}
        \cup Double({Raise})

\* a JSON body; None is a key that is absent (or null)
Body(a, n, u) == [action |-> a, set_name |-> n, use_ai |-> u]

\* /analyze reads set_name and use_ai, /mcp also action
Requests ==
    {r \in {[path |-> p, body |-> Body(a, n, u)] :
                p \in {"/analyze", "/mcp"},
                a \in {None, Some("analyze"), Some("explain")},
                n \in {None, Some("")} \cup {Some(x) : x \in Names},
                u \in {None, Some(FALSE), Some(TRUE)}} :
        r.path = "/analyze" => r.body.action = None}

\* a response; in its body None is a key that is absent
Response(status, body) == [status |-> status, body |-> body]

ErrorBody(detail) ==
    [metrics |-> None, ai_explanation |-> None, ai_error |-> None,
     detail |-> Some(detail)]

\* result = {"metrics": metrics}
OkBody(m) ==
    [metrics |-> m, ai_explanation |-> None, ai_error |-> None, detail |-> None]

\* the explanation stored whether or not explain raised
WithExplanationOnly(body, o) == [body EXCEPT !.ai_explanation = o.val]

\* try: result["ai_explanation"] = adapter.explain(metrics)
\* except Exception as e: result["ai_error"] = str(e)
WithExplanation(body, o) ==
    IF o.raises
    THEN [body EXCEPT !.ai_error = o.val]
    ELSE [body EXCEPT !.ai_explanation = o.val]

\* only an absent name refused
NoNameAbsent(n) == n = None

\* if not set_name:
NoName(n) == n = None \/ n = Some("")

\* if use_ai:
UseAi(b) == b.use_ai = Some(TRUE)

\* a client posts a request
Post ==
    /\ pc = "idle"
    /\ req = None
    /\ req' \in {Some(r) : r \in Requests}
    /\ pc' = "validate"
    /\ UNCHANGED <<patched, again, candidates, top_n,
                   proc, resp, provider, explained, stdin, stdout, ws_in, ws_out,
                   set_name, box_price, ebay, listings, info, top, top_card_name,
                   psa, reprint, sentiment, parts, report, env, trace>>

\* the body is validated: AnalyzeRequest requires set_name (422 from the
\* framework); /mcp looks at the action, then both handlers at the name
Validate ==
    /\ pc = "validate"
    /\ LET r == req[1]
           b == r.body
       IN  IF r.path = "/analyze" /\ b.set_name = None
           THEN /\ resp' = Some(Response(422, ErrorBody("Field required")))
                /\ pc' = "responded"
                /\ UNCHANGED set_name
           ELSE IF r.path = "/mcp" /\ b.action # Some("analyze")
           THEN /\ resp' = Some(Response(400, ErrorBody("unsupported action")))
                /\ pc' = "responded"
                /\ UNCHANGED set_name
           ELSE IF NoName(b.set_name)
           THEN /\ resp' = Some(Response(400,
                                ErrorBody(IF r.path = "/analyze"
                                          THEN "set_name is required"
                                          ELSE "set_name required")))
                /\ pc' = "responded"
                /\ UNCHANGED set_name
           ELSE /\ set_name' = b.set_name[1]
                /\ pc' = "core"
                /\ UNCHANGED resp
    /\ UNCHANGED <<patched, again, candidates, top_n,
                   proc, req, provider, explained, stdin, stdout, ws_in, ws_out,
                   box_price, ebay, listings, info, top, top_card_name,
                   psa, reprint, sentiment, parts, report, env, trace>>

\* try: metrics = analyzer.analyzer_core.compute_metrics(set_name)
CallCore ==
    /\ pc = "core"
    /\ \E o \in EngineOutcomes(set_name) :
        /\ trace' = Append(trace, Call("analyzer.analyzer_core.compute_metrics", set_name))
        /\ IF o.raises
           THEN report' = report /\ pc' = "wrapper"
           ELSE report' = o.val /\ pc' = "explain"
    /\ UNCHANGED <<patched, again, candidates, top_n, periphery,
                   set_name, box_price, ebay, listings, info, top, top_card_name,
                   psa, reprint, sentiment, parts, env>>

\* except Exception: metrics = analyzer.compute_metrics(set_name); a second
\* failure leaves the handler
CallWrapper ==
    /\ pc = "wrapper"
    /\ \E o \in EngineOutcomes(set_name) :
        /\ trace' = Append(trace, Call("analyzer.compute_metrics", set_name))
        /\ IF o.raises
           THEN /\ report' = report
                /\ resp' = Some(Response(500, ErrorBody("Internal Server Error")))
                /\ pc' = "responded"
           ELSE /\ report' = o.val
                /\ resp' = resp
                /\ pc' = "explain"
    /\ UNCHANGED <<patched, again, candidates, top_n,
                   proc, req, provider, explained, stdin, stdout, ws_in, ws_out,
                   set_name, box_price, ebay, listings, info, top, top_card_name,
                   psa, reprint, sentiment, parts, env>>

\* use_ai: adapter = AIAdapter.from_env(); explain inside try/except
ExplainAndRespond ==
    /\ pc = "explain"
    /\ UseAi(req[1].body)
    /\ \E o \in ExplainOutcomes(report[1], provider) :
        /\ explained' = Some(o)
        /\ resp' = Some(Response(200, WithExplanation(OkBody(report), o)))
    /\ pc' = "responded"
    /\ UNCHANGED <<patched, again, candidates, top_n,
                   proc, req, provider, stdin, stdout, ws_in, ws_out,
                   set_name, box_price, ebay, listings, info, top, top_card_name,
                   psa, reprint, sentiment, parts, report, env, trace>>

\* no explanation asked: return result
Respond ==
    /\ pc = "explain"
    /\ ~UseAi(req[1].body)
    /\ resp' = Some(Response(200, OkBody(report)))
    /\ pc' = "responded"
    /\ UNCHANGED <<patched, again, candidates, top_n,
                   proc, req, provider, explained, stdin, stdout, ws_in, ws_out,
                   set_name, box_price, ebay, listings, info, top, top_card_name,
                   psa, reprint, sentiment, parts, report, env, trace>>

\* the server process: AI_PROVIDER set or not, the module's names rebound to
\* doubles or not
InitServer ==
    /\ patched \in BOOLEAN
    /\ Idle
    /\ NoPage
    /\ proc = None
    /\ req = None
    /\ resp = None
    /\ provider \in {None, Some("openai")}
    /\ explained = None
    /\ stdin = <<>>
    /\ stdout = <<>>
    /\ ws_in = <<>>
    /\ ws_out = <<>>

NextServer == Post \/ Validate \/ CallCore \/ CallWrapper \/ ExplainAndRespond \/ Respond

SpecServer == InitServer /\ [][NextServer]_vars

\* ------------------------------------------------------ the stdio bridge
\* a JSON value read from a line: a dict with its id, method and params keys
\* (None: the key is absent; params is an object or an array), or a value
\* that is not a dict
Msg(id, method, params) ==
    [dict |-> TRUE, id |-> id, method |-> method, params |-> params]

JsonValues ==
    {[dict |-> FALSE, id |-> None, method |-> None, params |-> "array"]}
        \cup {Msg(i, Some(m), ps) :
                  i \in {None, Some(1), Some(2)},
                  m \in {"initialize", "tools/list", "tools/call", "ping"},
                  ps \in {"object", "array"}}

\* the text of a value
Dumps(v) ==
    IF ~v.dict THEN "[1]"
    ELSE "{\"jsonrpc\":\"2.0\""
             \o (IF v.id = None THEN "" ELSE ",\"id\":" \o ToString(v.id[1]))
             \o ",\"method\":\"" \o v.method[1] \o "\""
             \o (IF v.params = "object"
                 THEN ",\"params\":{\"name\":\"compute_metrics\",\"arguments\":{\"set_name\":\"Base\"}}"
                 ELSE ",\"params\":[1]")
             \o "}"

\* json.loads(line): the value, or None when it raises
Loads(line) ==
    IF \E v \in JsonValues : Dumps(v) = line
    THEN Some(CHOOSE v \in JsonValues : Dumps(v) = line)
    ELSE None

\* line.strip()
RECURSIVE Strip(_)
Strip(line) ==
    IF Len(line) = 0 THEN line
    ELSE IF SubSeq(line, 1, 1) = " " THEN Strip(SubSeq(line, 2, Len(line)))
    ELSE IF SubSeq(line, Len(line), Len(line)) = " "
    THEN Strip(SubSeq(line, 1, Len(line) - 1))
    ELSE line

\* the object handed to safe_print_json: a JSON-RPC response with its id, or
\* what the HTTP server answered
Written(id, kind) == [id |-> id, kind |-> kind]

\* readline returns the next line, the lines before it having been handled
Reading == pc = "readline" /\ Len(stdout) < Len(stdin)

Parsed == Loads(Strip(stdin[Len(stdout) + 1]))

\* msg is a dict whose method is m
IsCall(m) == Parsed # None /\ Parsed[1].dict /\ Parsed[1].method = Some(m)

\* main() is entered
Main ==
    /\ pc = "idle"
    /\ pc' = "readline"
    /\ UNCHANGED <<patched, again, candidates, top_n, periphery,
                   set_name, box_price, ebay, listings, info, top, top_card_name,
                   psa, reprint, sentiment, parts, report, env, trace>>

\* what the handling of one line leaves unchanged
WroteOnly ==
    UNCHANGED <<patched, again, candidates, top_n,
                proc, req, resp, provider, explained, stdin, ws_in, ws_out,
                set_name, box_price, ebay, listings, info, top, top_card_name,
                psa, reprint, sentiment, parts, report, env, trace>>

\* lines 252 to 259: a blank line or a line that is not JSON
SkipLine ==
    /\ Reading
    /\ Strip(stdin[Len(stdout) + 1]) = "" \/ Parsed = None
    /\ stdout' = Append(stdout, <<>>)
    /\ pc' = "readline"
    /\ WroteOnly

\* lines 265 to 268 and handle_initialize; .get on params that is not a dict
\* raises AttributeError, which nothing catches
HandleInitialize ==
    /\ Reading
    /\ IsCall("initialize")
    /\ IF Parsed[1].params = "array"
       THEN stdout' = Append(stdout, <<>>) /\ pc' = "crashed"
       ELSE /\ stdout' = Append(stdout, <<Written(Parsed[1].id, "initialize result")>>)
            /\ pc' = "readline"
    /\ WroteOnly

\* lines 271 to 273 and handle_tools_list
HandleToolsList ==
    /\ Reading
    /\ IsCall("tools/list")
    /\ stdout' = Append(stdout, <<Written(Parsed[1].id, "tools result")>>)
    /\ pc' = "readline"
    /\ WroteOnly

\* lines 276 to 278 and handle_tools_call: the tool returns or raises
HandleToolsCall ==
    /\ Reading
    /\ IsCall("tools/call")
    /\ IF Parsed[1].params = "array"
       THEN stdout' = Append(stdout, <<>>) /\ pc' = "crashed"
       ELSE /\ \E kind \in {"content result", "error -32603"} :
                stdout' = Append(stdout, <<Written(Parsed[1].id, kind)>>)
            /\ pc' = "readline"
    /\ WroteOnly

OtherMethod ==
    /\ Parsed # None
    /\ ~IsCall("initialize")
    /\ ~IsCall("tools/list")
    /\ ~IsCall("tools/call")

\* lines 281 to 283: a dict without id
IgnoreNotification ==
    /\ Reading
    /\ OtherMethod
    /\ Parsed[1].dict /\ Parsed[1].id = None
    /\ stdout' = Append(stdout, <<>>)
    /\ pc' = "readline"
    /\ WroteOnly

\* line 286 and forward_to_http: whatever the POST does, one object is printed
ForwardToHttp ==
    /\ Reading
    /\ OtherMethod
    /\ ~(Parsed[1].dict /\ Parsed[1].id = None)
    /\ \E kind \in {"http json", "http text", "http error"} :
        stdout' = Append(stdout, <<Written(None, kind)>>)
    /\ pc' = "readline"
    /\ WroteOnly

\* lines 248 to 251: readline returns "" at end of input
EndOfInput ==
    /\ pc = "readline"
    /\ Len(stdout) >= Len(stdin)
    /\ pc' = "exited"
    /\ UNCHANGED <<patched, again, candidates, top_n, periphery,
                   set_name, box_price, ebay, listings, info, top, top_card_name,
                   psa, reprint, sentiment, parts, report, env, trace>>

\* the bridge started on the lines a client will send
InitBridge ==
    /\ patched = FALSE
    /\ Idle
    /\ NoPage
    /\ proc = None
    /\ req = None
    /\ resp = None
    /\ provider = None
    /\ explained = None
    /\ stdin \in SeqsUpTo({"", "  ", "Content-Length: 52"}
                                \cup {Dumps(v) : v \in JsonValues}, MaxStdin)
    /\ stdout = <<>>
    /\ ws_in = <<>>
    /\ ws_out = <<>>

NextBridge ==
    \/ Main
    \/ SkipLine
    \/ HandleInitialize
    \/ HandleToolsList
    \/ HandleToolsCall
    \/ IgnoreNotification
    \/ ForwardToHttp
    \/ EndOfInput

SpecBridge == InitBridge /\ [][NextBridge]_vars

\* -------------------------------------------------- the streaming endpoint
\* a JSON payload: a dict with its action, set_name and metrics keys (None: the
\* key is absent), or a value that is not a dict
Payload(a, n, m) == [dict |-> TRUE, action |-> a, set_name |-> n, metrics |-> m]

\* the metrics a client sends along: box_price 42.5, sum_top 100.0
Payloads ==
    {[dict |-> FALSE, action |-> None, set_name |-> None, metrics |-> None],
     Payload(Some("analyze"), Some("Base"), None)}
        \cup {Payload(Some("explain"), n, m) :
                  n \in {None, Some("Base")},
                  m \in {None, Some([box_price |-> Some(4250), sold_count_30d |-> 5,
                                     top_chase |-> Some([sum_top |-> 10000])])}}

WsDumps(v) ==
    IF ~v.dict THEN "[1]"
    ELSE "{\"action\":\"" \o v.action[1] \o "\""
             \o (IF v.set_name = None THEN ""
                 ELSE ",\"set_name\":\"" \o v.set_name[1] \o "\"")
             \o (IF v.metrics = None THEN ""
                 ELSE ",\"metrics\":{\"box_price\":42.5,\"sold_count_30d\":5,"
                          \o "\"top_chase\":{\"sum_top\":100.0}}")
             \o "}"

\* json.loads(msg): the payload, or None when it raises
WsLoads(text) ==
    IF \E v \in Payloads : WsDumps(v) = text
    THEN Some(CHOOSE v \in Payloads : WsDumps(v) = text)
    ELSE None

\* json.dumps({"error": text}), {"chunk": text}, {"done": True}
Sent(kind, text) == [kind |-> kind, text |-> text]

\* receive_text returns the next message, those before it having been handled
Receiving == pc = "receive" /\ Len(ws_out) < Len(ws_in)

Received == WsLoads(ws_in[Len(ws_out) + 1])

IsExplain == Received # None /\ Received[1].dict /\ Received[1].action = Some("explain")

\* what the handling of one message leaves unchanged
SentOnly ==
    UNCHANGED <<patched, again, candidates, top_n,
                proc, req, resp, provider, explained, stdin, stdout, ws_in,
                set_name, box_price, ebay, listings, info, top, top_card_name,
                psa, reprint, sentiment, parts, report, env, trace>>

\* await websocket.accept()
Accept ==
    /\ pc = "idle"
    /\ pc' = "receive"
    /\ UNCHANGED <<patched, again, candidates, top_n, periphery,
                   set_name, box_price, ebay, listings, info, top, top_card_name,
                   psa, reprint, sentiment, parts, report, env, trace>>

\* lines 112 to 116
InvalidJson ==
    /\ Receiving
    /\ Received = None
    /\ ws_out' = Append(ws_out, <<Sent("error", "invalid json")>>)
    /\ pc' = "receive"
    /\ SentOnly

\* line 118: payload.get on a value that is not a dict raises AttributeError;
\* only WebSocketDisconnect is caught, the handler ends
PayloadRaises ==
    /\ Receiving
    /\ Received # None /\ ~Received[1].dict
    /\ ws_out' = Append(ws_out, <<>>)
    /\ pc' = "crashed"
    /\ SentOnly

\* lines 137 to 138
UnknownAction ==
    /\ Receiving
    /\ Received # None /\ Received[1].dict /\ ~IsExplain
    /\ ws_out' = Append(ws_out, <<Sent("error", "unknown action")>>)
    /\ pc' = "receive"
    /\ SentOnly

\* lines 123 to 124: the name compute_metrics is not defined in server.py
\* (only the module analyzer is imported): NameError, the handler ends
ExplainByName ==
    /\ Receiving
    /\ IsExplain
    /\ Received[1].set_name \notin {None, Some("")} /\ Received[1].metrics = None
    /\ ws_out' = Append(ws_out, <<>>)
    /\ pc' = "crashed"
    /\ SentOnly

\* lines 126 to 128
MetricsRequired ==
    /\ Receiving
    /\ IsExplain
    /\ Received[1].set_name \in {None, Some("")} /\ Received[1].metrics = None
    /\ ws_out' = Append(ws_out, <<Sent("error", "metrics required")>>)
    /\ pc' = "receive"
    /\ SentOnly

\* lines 130 to 136: the chunks, then done; stream_explain raising ends the
\* handler before anything is sent
ExplainStream ==
    /\ Receiving
    /\ IsExplain
    /\ Received[1].metrics # None
    /\ LET st == StreamExplain(Received[1].metrics[1], provider)
       IN  IF st.raises
           THEN ws_out' = Append(ws_out, <<>>) /\ pc' = "crashed"
           ELSE /\ ws_out' = Append(ws_out, [k \in DOMAIN st.val |-> Sent("chunk", st.val[k])]
                                          \o <<Sent("done", "")>>)
                /\ pc' = "receive"
    /\ SentOnly

\* the client has gone: receive_text raises WebSocketDisconnect, lines 140-141
Disconnect ==
    /\ pc = "receive"
    /\ Len(ws_out) >= Len(ws_in)
    /\ pc' = "closed"
    /\ UNCHANGED <<patched, again, candidates, top_n, periphery,
                   set_name, box_price, ebay, listings, info, top, top_card_name,
                   psa, reprint, sentiment, parts, report, env, trace>>

\* a client connects and will send these messages
InitSocket ==
    /\ patched = FALSE
    /\ Idle
    /\ NoPage
    /\ proc = None
    /\ req = None
    /\ resp = None
    /\ provider \in {None, Some("openai")}
    /\ explained = None
    /\ stdin = <<>>
    /\ stdout = <<>>
    /\ ws_in \in SeqsUpTo({"explain Base"} \cup {WsDumps(v) : v \in Payloads},
                            MaxMessages)
    /\ ws_out = <<>>

NextSocket ==
    \/ Accept
    \/ InvalidJson
    \/ PayloadRaises
    \/ UnknownAction
    \/ ExplainByName
    \/ MetricsRequired
    \/ ExplainStream
    \/ Disconnect

SpecSocket == InitSocket /\ [][NextSocket]_vars

\* =================================================================== claims
Finished == pc \in {"done", "raised"}

Raised(fn) == Called(fn) /\ env[fn].raises
Returned(fn) == Called(fn) /\ ~env[fn].raises

\* a dict provider answered None in place of its dict
Malformed(fn) == fn # "scrape_price_data" /\ Returned(fn) /\ env[fn].val = None

Unconditional == Providers \ {"get_psa_population"}

AllRaised == \A fn \in Unconditional : Raised(fn)

\* C1: whatever the subject, and whichever of its providers raise or return
\* their record, compute_metrics returns a report and never raises; when all
\* of them raise, every field is its fallback and the summary is the
\* placeholder sentence that ends with the reprint-risk clause.
C1_AlwaysReturnsReport ==
    Finished =>
        /\ pc = "done"
        /\ report # None
        /\ AllRaised =>
            /\ ~Called("get_psa_population")
            /\ report[1].box_price = None
            /\ report[1].sold_count_30d = 0
            /\ report[1].daily_sales.num = 0
            /\ report[1].weekly_sales.num = 0
            /\ report[1].listings_count = 0
            /\ report[1].days_to_clear = None
            /\ report[1].set_info = Some([num_cards |-> None, release_date |-> None])
            /\ report[1].top_chase
                   = Some([top_cards |-> <<>>, sum_top |-> 0, avg_top |-> None])
            /\ report[1].psa = None
            /\ report[1].reprint
                   = Some([warning |-> FALSE, matches |-> <<>>,
                           note |-> Some("check failed")])
            /\ report[1].sentiment
                   = Some([avg_polarity |-> None, classification |-> "unknown",
                           sample |-> <<>>])
            /\ report[1].summary
                   = set_name \o ": current box price N/A, ~0 sold/week on eBay, "
                       \o "0 listings on market, days-to-clear: N/A, "
                       \o "sentiment: unknown, reprint risk: low"
            /\ parts[Len(parts)] = "reprint risk: low"

C1_Witness == pc = "done" /\ AllRaised /\ set_name = "Base"

\* C2: a provider that answers None in place of its dict is caught at the
\* call site like a raise: the local holds the provider's fallback and the
\* call still returns a report.
C2_MalformedCaught ==
    Finished =>
        /\ pc = "done"
        /\ report # None
        /\ Malformed("scrape_ebay_sales") => ebay = SalesFallback
        /\ Malformed("scrape_tcgplayer_listings") => listings = SupplyFallback
        /\ Malformed("get_top_chase_cards") => top = ChaseFallback
        /\ Malformed("check_reprint_news") => reprint = ReprintFallback
        /\ Malformed("analyze_sentiment") => sentiment = SentimentFallback

\* ---- C3: what the failure of one provider changes
\* the report field that carries provider g's result
FieldOf(g, r) ==
    CASE g = "scrape_price_data" -> r.box_price
      [] g = "scrape_ebay_sales" -> Some(r.sold_count_30d)
      [] g = "scrape_tcgplayer_listings" -> Some(r.listings_count)
      [] g = "get_set_info" -> r.set_info
      [] g = "get_top_chase_cards" -> r.top_chase
      [] g = "get_psa_population" -> r.psa
      [] g = "check_reprint_news" -> r.reprint
      [] g = "analyze_sentiment" -> r.sentiment

\* the positions of provider g's clauses in the parts ps of report r
ClausesOf(g, r, ps) ==
    LET hasTop == r.top_chase[1].top_cards # <<>>
        hasPsa == Len(ps) - 6 > (IF hasTop THEN 1 ELSE 0)
    IN  CASE g = "scrape_price_data" -> {1}
          [] g = "scrape_ebay_sales" -> {2, 4}
          [] g = "scrape_tcgplayer_listings" -> {3, 4}
          [] g = "get_set_info" -> {}
          [] g = "get_top_chase_cards" -> IF hasTop THEN {5} ELSE {}
          [] g = "get_psa_population" -> IF hasPsa THEN {Len(ps) - 2} ELSE {}
          [] g = "check_reprint_news" -> {Len(ps)}
          [] g = "analyze_sentiment" -> {Len(ps) - 1}

RECURSIVE DropAt(_, _, _)
DropAt(ps, S, i) ==
    IF i > Len(ps) THEN <<>>
    ELSE (IF i \in S THEN <<>> ELSE <<ps[i]>>) \o DropAt(ps, S, i + 1)

\* the clauses of ps that belong to none of the providers in G
OtherClauses(G, r, ps) ==
    DropAt(ps, UNION {ClausesOf(g, r, ps) : g \in G}, 1)

\* reports a (parts pa) and b (parts pb) agree outside the slices of the
\* providers in G: on every other provider's field, on the rates not derived
\* from G, and on every clause that is not one of G's
SameOutside(G, a, pa, b, pb) ==
    /\ \A g \in Providers \ G : FieldOf(g, a) = FieldOf(g, b)
    /\ "scrape_ebay_sales" \notin G =>
        /\ a.daily_sales = b.daily_sales
        /\ a.weekly_sales = b.weekly_sales
    /\ G \cap {"scrape_ebay_sales", "scrape_tcgplayer_listings"} = {} =>
        a.days_to_clear = b.days_to_clear
    /\ OtherClauses(G, a, pa) = OtherClauses(G, b, pb)

\* the call that differs from this one only in that provider fn raises
IfFailed(fn) == RunAll(set_name, [env EXCEPT ![fn] = Raise])

\* fn returned its value in this call
Succeeded(fn) == Returned(fn) /\ ~Malformed(fn)

\* C3 as claimed: had any one provider that succeeded failed instead, the
\* report would differ in that provider's slice only.
C3_FailureOnlyOwnSlice ==
    pc = "done" =>
        \A fn \in Providers :
            Succeeded(fn) =>
                LET alt == IfFailed(fn)
                IN  /\ ~alt.raised
                    /\ SameOutside({fn}, report[1], parts, alt.report[1], alt.parts)

\* what a failure of fn takes with it: the population lookup is made with the
\* chase-card result, so it goes when the chase-card provider fails
SliceOf(fn) ==
    IF fn = "get_top_chase_cards"
    THEN {"get_top_chase_cards", "get_psa_population"}
    ELSE {fn}

\* C3 amended: had any one provider that succeeded failed instead, the report
\* would differ in that provider's slice only, where the slice of the
\* chase-card provider takes in the population field and the PSA10 clause;
\* and the report is the one the obtained results give.
C3_FailureOnlySlice ==
    pc = "done" =>
        /\ LET run == RunAll(set_name, env)
           IN  report = run.report /\ parts = run.parts
        /\ \A fn \in Providers :
            Succeeded(fn) =>
                LET alt == IfFailed(fn)
                IN  /\ ~alt.raised
                    /\ SameOutside(SliceOf(fn), report[1], parts,
                                   alt.report[1], alt.parts)

\* a call in which failures and successes mix: the chase cards and the
\* population were obtained while the sales and sentiment providers raised
C3_Witness ==
    /\ pc = "done"
    /\ Raised("scrape_ebay_sales")
    /\ Raised("analyze_sentiment")
    /\ Succeeded("get_top_chase_cards")
    /\ Succeeded("get_psa_population")
    /\ report[1].psa = Some([psa10 |-> Some(10)])
    /\ report[1].box_price = Some(15000)

\* ---- C4: one attempt per provider
\* C4: in one call no provider is invoked twice, a failed one included, and
\* a call that has ended has invoked each of the seven unconditional
\* providers exactly once and the population provider at most once.
C4_EachProviderOnce ==
    /\ \A fn \in Providers : Count(fn) <= 1
    /\ Finished =>
        /\ \A fn \in Unconditional : Count(fn) = 1
        /\ Len(trace) \in {7, 8}

C4_Witness ==
    /\ pc = "done"
    /\ Raised("scrape_ebay_sales")
    /\ Raised("get_psa_population")
    /\ Count("scrape_ebay_sales") = 1
    /\ Count("get_psa_population") = 1

\* ---- C5: when and with what the population provider is called
\* C5: every call of the population provider comes after the chase-card
\* provider has returned, the chase-card result then holds at least one
\* card, and the argument is the name of its first card.
C5_PopulationAfterChase ==
    \A i \in DOMAIN trace :
        trace[i].fn = "get_psa_population" =>
            /\ \E j \in 1 .. (i - 1) : trace[j].fn = "get_top_chase_cards"
            /\ Returned("get_top_chase_cards")
            /\ top = env["get_top_chase_cards"].val
            /\ Len(top[1].top_cards) >= 1
            /\ trace[i].arg = top[1].top_cards[1].name

C5_Witness ==
    /\ pc = "done"
    /\ Called("get_psa_population")
    /\ Len(top[1].top_cards) = 2
    /\ trace[6] = [fn |-> "get_psa_population", arg |-> "Top"]

\* ---- C6: no card, no population lookup
\* C6: once the chase-card step has left a result without cards (the
\* fallback of a failed call included), the population provider is not
\* invoked, and the report has its psa field, holding the null that stands
\* for "unavailable".
C6_NoCardsNoPopulation ==
    (pc \in {"reprint", "sentiment", "derive", "done"} /\ top[1].top_cards = <<>>) =>
        /\ ~Called("get_psa_population")
        /\ psa = None
        /\ pc = "done" =>
            /\ "psa" \in DOMAIN report[1]
            /\ report[1].psa = None

C6_Witness ==
    /\ pc = "done"
    /\ Raised("get_top_chase_cards")
    /\ report[1].top_chase[1].top_cards = <<>>
    /\ report[1].psa = None

\* ---- C7: the sales rates
\* the count the sales provider delivered: 0 when it raised or gave no count
CountSold ==
    IF Returned("scrape_ebay_sales")
           /\ env["scrape_ebay_sales"].val # None
           /\ env["scrape_ebay_sales"].val[1].count_sold # None
    THEN env["scrape_ebay_sales"].val[1].count_sold[1]
    ELSE 0

\* C7: in every report daily_sales is count_sold / 30 when count_sold > 0 and
\* the number 0.0 otherwise (provider failed, null count, zero count), and
\* weekly_sales is 7 x daily_sales.
C7_SalesRates ==
    pc = "done" =>
        LET d == report[1].daily_sales
            w == report[1].weekly_sales
        IN  /\ d.den > 0
            /\ w.den > 0
            /\ CountSold > 0 => d.num * 30 = CountSold * d.den
            /\ CountSold = 0 => d.num = 0
            /\ w.num * d.den = 7 * d.num * w.den
            /\ CountSold = 0 => w.num = 0

C7_Witness ==
    /\ pc = "done"
    /\ CountSold = 14
    /\ report[1].daily_sales = Frac(14, 30)
    /\ report[1].weekly_sales = Frac(98, 30)

\* ---- C8: days_to_clear
\* C8: in every report days_to_clear is null when daily_sales is 0.0, and
\* when it is not null daily_sales is above 0 and days_to_clear is
\* listings_count / daily_sales.
C8_DaysToClearGuard ==
    pc = "done" =>
        LET d == report[1].daily_sales
            t == report[1].days_to_clear
        IN  /\ d.num = 0 => t = None
            /\ t # None =>
                /\ d.num > 0
                /\ t[1].den > 0
                /\ t[1].num * d.num = report[1].listings_count * d.den * t[1].den

C8_Witness ==
    /\ pc = "done"
    /\ report[1].listings_count = 28
    /\ report[1].daily_sales.num = 0
    /\ report[1].days_to_clear = None

\* ---- C9: every provider succeeds
AllSucceeded ==
    /\ \A fn \in Unconditional : Succeeded(fn)
    /\ Called("get_psa_population") => Succeeded("get_psa_population")

\* C9 as claimed: with every provider succeeding the report's box_price,
\* sold_count_30d and listings_count are the values the providers returned,
\* the summary is there, and days_to_clear is listings_count x 30 / count_sold.
C9_ReportEqualsProviders ==
    (pc = "done" /\ AllSucceeded) =>
        LET r == report[1]
            sold == env["scrape_ebay_sales"].val[1].count_sold
            listed == env["scrape_tcgplayer_listings"].val[1].listings_count
        IN  /\ r.box_price = env["scrape_price_data"].val
            /\ Some(r.sold_count_30d) = sold
            /\ Some(r.listings_count) = listed
            /\ "summary" \in DOMAIN r
            /\ r.days_to_clear # None
            /\ r.days_to_clear[1].num * r.sold_count_30d
                   = r.listings_count * 30 * r.days_to_clear[1].den

\* a count as the report gives it: a null count is given as 0
Reported(c) == IF c = None THEN 0 ELSE c[1]

\* C9 amended: with every provider succeeding the report's box_price is the
\* price returned, sold_count_30d and listings_count are the counts returned
\* with a null count given as 0, the summary is there, and days_to_clear is
\* listings_count x 30 / count_sold when count_sold > 0 (14 sold and 28
\* listed give 14/30 a day and 60 days) and null when count_sold is 0.
C9_ReportEqualsProvidersOrZero ==
    (pc = "done" /\ AllSucceeded) =>
        LET r == report[1]
            sold == env["scrape_ebay_sales"].val[1].count_sold
            listed == env["scrape_tcgplayer_listings"].val[1].listings_count
        IN  /\ r.box_price = env["scrape_price_data"].val
            /\ r.sold_count_30d = Reported(sold)
            /\ r.listings_count = Reported(listed)
            /\ "summary" \in DOMAIN r
            /\ r.sold_count_30d = 0 => r.days_to_clear = None
            /\ r.sold_count_30d > 0 =>
                /\ r.days_to_clear # None
                /\ r.days_to_clear[1].den > 0
                /\ r.days_to_clear[1].num * r.sold_count_30d
                       = r.listings_count * 30 * r.days_to_clear[1].den
            /\ (r.sold_count_30d = 14 /\ r.listings_count = 28) =>
                /\ r.daily_sales.num * 30 = 14 * r.daily_sales.den
                /\ r.days_to_clear[1].num = 60 * r.days_to_clear[1].den

C9_Witness ==
    /\ pc = "done"
    /\ AllSucceeded
    /\ report[1].box_price = Some(15000)
    /\ report[1].sold_count_30d = 14
    /\ report[1].listings_count = 28
    /\ PyInt(report[1].days_to_clear[1]) = 60
    /\ report[1].psa = Some([psa10 |-> Some(10)])

\* ---- C10: the shape of the summary
\* the texts each kind of clause can take
MaxShown == 30 * 30
BoxPriceForms ==
    {"current box price N/A"}
        \cup {"current box price $" \o ToString(d) \o "." \o c :
                  d \in 0 .. 200, c \in {"00", "50", "99"}}
SoldForms == {"~" \o ToString(n) \o " sold/week on eBay" : n \in 0 .. MaxShown}
ListingsForms == {ToString(n) \o " listings on market" : n \in 0 .. MaxShown}
DaysForms ==
    {"days-to-clear: N/A"} \cup {"~" \o ToString(n) \o " days to clear" : n \in 0 .. MaxShown}
TopForms ==
    {"top card " \o n \o " ~$" \o ToString(d) \o "." \o c :
         n \in {"", "Top", "Second"}, d \in 0 .. 200, c \in {"0", "5", "05", "25"}}
PsaForms == {"PSA10 pop " \o ToString(n) : n \in 0 .. MaxShown}
SentimentForms ==
    {"sentiment: " \o c :
         c \in {"unknown", "no data", "mixed", "mostly positive", "mostly negative"}}
ReprintForms == {"reprint risk: HIGH", "reprint risk: low"}

RECURSIVE CommaSeparated(_, _)
CommaSeparated(ps, n) ==
    IF n = 1 THEN ps[1] ELSE CommaSeparated(ps, n - 1) \o ", " \o ps[n]

\* C10: the summary is the subject, ": ", and the clauses joined by ", ";
\* the clauses are box price, sold/week, listings, days-to-clear, then the
\* optional top-card and PSA10 clauses, then sentiment and reprint risk, the
\* six others being in every report.
C10_SummaryShape ==
    pc = "done" =>
        LET n == Len(parts)
            mid == SubSeq(parts, 5, n - 2)
        IN  /\ n \in 6 .. 8
            /\ parts[1] \in BoxPriceForms
            /\ parts[2] \in SoldForms
            /\ parts[3] \in ListingsForms
            /\ parts[4] \in DaysForms
            /\ \/ mid = <<>>
               \/ Len(mid) = 1 /\ mid[1] \in TopForms \cup PsaForms
               \/ Len(mid) = 2 /\ mid[1] \in TopForms /\ mid[2] \in PsaForms
            /\ parts[n - 1] \in SentimentForms
            /\ parts[n] \in ReprintForms
            /\ report[1].summary = set_name \o ": " \o CommaSeparated(parts, n)

C10_Witness ==
    /\ pc = "done"
    /\ report[1].summary
           = "Test Set: current box price $150.00, ~3 sold/week on eBay, "
               \o "28 listings on market, ~60 days to clear, top card Top ~$50.0, "
               \o "PSA10 pop 10, sentiment: mostly positive, reprint risk: HIGH"

\* ---- C11: the box price clause
\* C11: the first clause gives the price with two decimals whenever the price
\* provider returned a price, and reads N/A only when the report holds no
\* box price.
C11_BoxPriceClause ==
    pc = "done" =>
        LET o == env["scrape_price_data"]
        IN  /\ (Returned("scrape_price_data") /\ o.val # None) =>
                   parts[1] = "current box price $" \o Fmt2f(o.val[1])
            /\ parts[1] = "current box price N/A" => report[1].box_price = None

\* ---- C12: the numbers shown are floors
\* the integer n with n <= x < n + 1
Floor(x) == CHOOSE n \in 0 .. x.num : n * x.den <= x.num /\ x.num < (n + 1) * x.den

HasClause(S) == \E i \in DOMAIN parts : parts[i] \in S

\* C13: the summary has a top card clause exactly when the chase-card result
\* holds at least one card, and the clause gives the name and the price of
\* its first card.
C13_TopCardClause ==
    pc = "done" =>
        LET cs == top[1].top_cards
        IN  /\ HasClause(TopForms) <=> cs # <<>>
            /\ cs # <<>> =>
                   parts[5] = "top card " \o cs[1].name \o " ~$" \o PyFloatStr(cs[1].price)

C13_Witness ==
    /\ pc = "done"
    /\ Returned("get_top_chase_cards")
    /\ top[1].top_cards = <<Card("Top", 5000), Card("Second", 2050)>>
    /\ parts[5] = "top card Top ~$50.0"

\* ---- C14: the PSA10 clause
\* the population lookup ran and returned a count
Psa10Known ==
    /\ Returned("get_psa_population")
    /\ env["get_psa_population"].val # None
    /\ env["get_psa_population"].val[1].psa10 # None

\* C14: the summary has a PSA10 clause exactly when the population lookup ran
\* and returned a non-null psa10, a count of 0 included, and the clause shows
\* that count; skipped, failed or null, there is no such clause.
C14_PsaClause ==
    pc = "done" =>
        /\ HasClause(PsaForms) <=> Psa10Known
        /\ Psa10Known =>
               parts[Len(parts) - 2]
                   = "PSA10 pop " \o ToString(env["get_psa_population"].val[1].psa10[1])
        /\ (~Called("get_psa_population") \/ Raised("get_psa_population")) =>
               ~HasClause(PsaForms)

C14_Witness ==
    /\ pc = "done"
    /\ Returned("get_psa_population")
    /\ psa = Some([psa10 |-> Some(0)])
    /\ parts[Len(parts) - 2] = "PSA10 pop 0"

\* ---- C15: the reprint clause
\* C15: the last clause reads HIGH exactly when the reprint provider returned
\* a signal whose warning is true, and low otherwise: warning false, provider
\* failed, or check not performed.
C15_ReprintClause ==
    pc = "done" =>
        LET warned == Returned("check_reprint_news")
                          /\ env["check_reprint_news"].val[1].warning
        IN  /\ parts[Len(parts)] = "reprint risk: HIGH" <=> warned
            /\ parts[Len(parts)] = "reprint risk: low" <=> ~warned
            /\ warned <=> report[1].reprint[1].warning

C15_Witness ==
    /\ pc = "done"
    /\ Returned("check_reprint_news")
    /\ reprint[1].note = Some("snscrape not available; check not performed")
    /\ parts[Len(parts)] = "reprint risk: low"

\* ---- C16: the summary of the example
\* the report holds the values of the example that the providers determine:
\* box price 150.0, weekly sales 9.8, 28 listings, the one card Top at 50.0,
\* PSA10 count 10, sentiment "mostly positive", no reprint warning
ExampleGiven ==
    /\ pc = "done"
    /\ report[1].box_price = Some(15000)
    /\ report[1].weekly_sales.num * 10 = 98 * report[1].weekly_sales.den
    /\ report[1].listings_count = 28
    /\ report[1].top_chase[1].top_cards = <<Card("Top", 5000)>>
    /\ report[1].psa = Some([psa10 |-> Some(10)])
    /\ report[1].sentiment[1].classification = "mostly positive"
    /\ ~report[1].reprint[1].warning

C17_ReportOfOutputsOnly ==
    pc = "done" =>
        LET run == RunAll(set_name, env)
        IN  /\ ~run.raised
            /\ report = run.report
            /\ report[1].summary = run.report[1].summary
            /\ DOMAIN report[1] = DOMAIN run.report[1]

\* a repeated call whose providers all succeed
C17_Witness ==
    /\ again
    /\ pc = "done"
    /\ AllSucceeded
    /\ set_name = "Test Set"
    /\ report[1].box_price = Some(15000)
    /\ report[1].psa = Some([psa10 |-> Some(10)])

\* ---- C18: the providers in any order
\* what the sequential call binds to each local from the outcomes in env
BoundAsSequential ==
    /\ Called("scrape_price_data") =>
           box_price = TryCall(env["scrape_price_data"], PriceFallback)
    /\ Called("scrape_ebay_sales") =>
           ebay = TryCall(env["scrape_ebay_sales"], SalesFallback)
    /\ Called("scrape_tcgplayer_listings") =>
           listings = TryCall(env["scrape_tcgplayer_listings"], SupplyFallback)
    /\ Called("get_set_info") => info = TryCall(env["get_set_info"], InfoFallback)
    /\ Called("get_top_chase_cards") =>
           top = TryCall(env["get_top_chase_cards"], ChaseFallback)
    /\ Called("get_psa_population") =>
           psa = TryCall(env["get_psa_population"], PsaFallback)
    /\ Called("check_reprint_news") =>
           reprint = TryCall(env["check_reprint_news"], ReprintFallback)
    /\ Called("analyze_sentiment") =>
           sentiment = TryCall(env["analyze_sentiment"], SentimentFallback)

\* C18: with the seven unconditional providers run in any order and the
\* population lookup run once the chase-card result is there, every provider
\* that has run has left the local the sequential call binds, whatever ran
\* before it, and the call ends having run the providers the sequential call
\* runs, with exactly the report of the sequential call on the same provider
\* outcomes, failures included.
C18_AnyOrderSameReport ==
    /\ pc \in {"gather", "derive", "done"} => BoundAsSequential
    /\ \A fn \in Providers : Count(fn) <= 1
    /\ Finished =>
        /\ pc = "done"
        /\ \A fn \in Unconditional : Called(fn)
        /\ Called("get_psa_population") <=> Truthy(TopCardName(top))
        /\ report = RunAll(set_name, env).report
        /\ parts = RunAll(set_name, env).parts

\* the sentiment and population blocks have run, the latter on the card the
\* chase-card block found, while the price and sales blocks have not
C18_Witness ==
    /\ pc = "gather"
    /\ Called("analyze_sentiment")
    /\ Called("get_psa_population")
    /\ trace[1] = Call("get_top_chase_cards", "Base")
    /\ trace[2] = Call("get_psa_population", "Top")
    /\ ~Called("scrape_price_data")
    /\ ~Called("scrape_ebay_sales")
    /\ psa = Some([psa10 |-> Some(10)])

\* ---- C19: the list get_top_chase_cards returns
TopCards == top[1].top_cards

AtMostTopN == Len(TopCards) <= top_n

NoNameTwice ==
    \A i, j \in DOMAIN TopCards : TopCards[i].name = TopCards[j].name => i = j

\* C19 as claimed: whatever the candidates and top_n >= 0, top_cards has at
\* most top_n entries, each priced strictly below the one before it, and no
\* name twice.
C19_TopCardsStrictlyDescending ==
    pc = "returned" =>
        /\ AtMostTopN
        /\ \A i \in 1 .. (Len(TopCards) - 1) : TopCards[i].price > TopCards[i + 1].price
        /\ NoNameTwice

\* C19 amended: whatever the candidates and top_n >= 0, top_cards has at most
\* top_n entries, no entry priced above the one before it (two cards of
\* different names may have the same price and then both stay), and no name
\* twice.
C19_TopCardsDescending ==
    pc = "returned" =>
        /\ AtMostTopN
        /\ \A i \in 1 .. (Len(TopCards) - 1) : TopCards[i].price >= TopCards[i + 1].price
        /\ NoNameTwice

\* two names at one price, and a third candidate cut by the name and by top_n
C19_Witness ==
    /\ pc = "returned"
    /\ candidates = <<Card("A", 3000), Card("B", 3000), Card("A", 1000)>>
    /\ top_n = 2
    /\ TopCards = <<Card("A", 3000), Card("B", 3000)>>

\* ---- C20: the price kept for a name
\* the highest price among the candidates named n
MaxSeen(n) ==
    CHOOSE p \in CandPrices :
        /\ \E i \in DOMAIN candidates : candidates[i] = Card(n, p)
        /\ \A i \in DOMAIN candidates : candidates[i].name = n => candidates[i].price <= p

\* C20: every card returned carries the highest price seen for its name,
\* wherever in the candidates that price stood, and every name seen is
\* returned unless top_n cuts the list; the candidates (A,10), (A,50), (B,30)
\* with top_n = 2 give (A,50), (B,30), in each of their orders.
C20_DedupKeepsMax ==
    pc = "returned" =>
        /\ \A i \in DOMAIN TopCards :
            /\ \E j \in DOMAIN candidates : candidates[j].name = TopCards[i].name
            /\ TopCards[i].price = MaxSeen(TopCards[i].name)
        /\ Len(TopCards) < top_n =>
               \A j \in DOMAIN candidates :
                   \E i \in DOMAIN TopCards : TopCards[i].name = candidates[j].name
        /\ ({candidates[j] : j \in DOMAIN candidates}
                = {Card("A", 1000), Card("A", 5000), Card("B", 3000)} /\ top_n = 2) =>
               TopCards = <<Card("A", 5000), Card("B", 3000)>>

C20_Witness ==
    /\ pc = "returned"
    /\ candidates = <<Card("A", 1000), Card("A", 5000), Card("B", 3000)>>
    /\ top_n = 2
    /\ TopCards = <<Card("A", 5000), Card("B", 3000)>>
    /\ top[1].sum_top = 8000

\* ---- C24: the fallback of each provider
\* C24: when a provider raises inside compute_metrics, its slice of the report
\* is exactly its fallback: box_price null; sold_count_30d 0; listings_count 0;
\* set_info with null num_cards and release_date; top_chase with no card,
\* sum_top 0.0 and avg_top null; psa the record {psa10: null}, which is not
\* the null of a skipped lookup; reprint with warning false, no matches and
\* the note "check failed"; sentiment with null polarity and classification
\* "unknown".
C24_FallbackSlices ==
    pc = "done" =>
        LET r == report[1]
        IN  /\ Raised("scrape_price_data") => r.box_price = None
            /\ Raised("scrape_ebay_sales") => r.sold_count_30d = 0
            /\ Raised("scrape_tcgplayer_listings") => r.listings_count = 0
            /\ Raised("get_set_info") =>
                   r.set_info = Some([num_cards |-> None, release_date |-> None])
            /\ Raised("get_top_chase_cards") =>
                   r.top_chase
                       = Some([top_cards |-> <<>>, sum_top |-> 0, avg_top |-> None])
            /\ Raised("get_psa_population") =>
                   /\ r.psa = Some([psa10 |-> None])
                   /\ r.psa # None
            /\ ~Called("get_psa_population") => r.psa = None
            /\ Raised("check_reprint_news") =>
                   r.reprint = Some([warning |-> FALSE, matches |-> <<>>,
                                     note |-> Some("check failed")])
            /\ Raised("analyze_sentiment") =>
                   /\ r.sentiment[1].avg_polarity = None
                   /\ r.sentiment[1].classification = "unknown"

\* the population lookup alone fails, on the card the chase-card step found
C24_Witness ==
    /\ pc = "done"
    /\ Raised("get_psa_population")
    /\ Returned("get_top_chase_cards")
    /\ Raised("check_reprint_news")
    /\ report[1].psa = Some([psa10 |-> None])
    /\ report[1].reprint[1].note = Some("check failed")

\* ---- C25: when the population provider is invoked
\* the chase-card result holds a card
HasFirstCard == top # None /\ top[1].top_cards # <<>>

\* C25: the population provider is invoked exactly when the chase-card result
\* has at least one card and the name of its first card is not empty; when the
\* first card has an empty name the report's psa is null and the summary still
\* has the top card clause of that card.
C25_PopulationIffNamedCard ==
    /\ pc \in {"reprint", "sentiment", "derive", "done", "raised"} =>
           (Called("get_psa_population")
                <=> (HasFirstCard /\ top[1].top_cards[1].name # ""))
    /\ (pc = "done" /\ HasFirstCard /\ top[1].top_cards[1].name = "") =>
           /\ report[1].psa = None
           /\ parts[5] = "top card  ~$" \o PyFloatStr(top[1].top_cards[1].price)

C25_Witness ==
    /\ pc = "done"
    /\ top[1].top_cards # <<>>
    /\ top[1].top_cards[1].name = ""
    /\ ~Called("get_psa_population")
    /\ report[1].psa = None
    /\ parts[5] \in TopForms

\* ---- C26: no population without a card
\* C26: in every report a non-null psa field comes with a non-empty top_cards
\* list, and a "PSA10 pop" clause of the summary always has a "top card"
\* clause immediately before it.
C26_PsaNeedsTopCard ==
    pc = "done" =>
        /\ report[1].psa # None => report[1].top_chase[1].top_cards # <<>>
        /\ \A i \in DOMAIN parts :
               parts[i] \in PsaForms => (i > 1 /\ parts[i - 1] \in TopForms)

C26_Witness ==
    /\ pc = "done"
    /\ report[1].psa = Some([psa10 |-> Some(10)])
    /\ parts[5] \in TopForms
    /\ parts[6] = "PSA10 pop 10"

\* ---- C27: an unknown supply count
\* the supply provider failed or returned a null count
SupplyUnknown ==
    \/ Raised("scrape_tcgplayer_listings")
    \/ /\ Returned("scrape_tcgplayer_listings")
       /\ env["scrape_tcgplayer_listings"].val = Some([listings_count |-> None])

\* the same provider outcomes, the supply provider counting zero listings
ZeroListingsEnv ==
    [env EXCEPT !["scrape_tcgplayer_listings"]
                    = Return(Some([listings_count |-> Some(0)]))]

\* C27: the report's listings_count is never null; when the supply count is
\* unknown (the provider failed or returned a null count) it is 0 and the
\* summary says "0 listings on market", and with count_sold > 0 days_to_clear
\* is 0.0, shown as "~0 days to clear"; the report is then the one of a market
\* with zero listings.
C27_UnknownSupplyIsZero ==
    pc = "done" =>
        /\ report[1].listings_count \in Nat
        /\ SupplyUnknown =>
            /\ report[1].listings_count = 0
            /\ parts[3] = "0 listings on market"
            /\ report[1].sold_count_30d > 0 =>
                /\ report[1].days_to_clear # None
                /\ report[1].days_to_clear[1].num = 0
                /\ parts[4] = "~0 days to clear"
            /\ report = RunAll(set_name, ZeroListingsEnv).report

C27_Witness ==
    /\ pc = "done"
    /\ Returned("scrape_tcgplayer_listings")
    /\ listings = Some([listings_count |-> None])
    /\ report[1].sold_count_30d = 14
    /\ report[1].listings_count = 0
    /\ report[1].days_to_clear = Some(Frac(0, 14))
    /\ parts[4] = "~0 days to clear"

\* ---- C21: the reprint check that could not run
\* the tool was missing, timed out or exited with an error
CouldNotRun == proc[1].raises # None \/ proc[1].returncode # 0

\* C21: whenever the tool could not be run (missing, timed out, or exited with
\* an error) the result of check_reprint_news has warning false and a note;
\* a result with warning false and no note comes only from a run that exited
\* with success and found no mention; warning is true exactly when matches is
\* not empty.
C21_NoteTellsCouldNotRun ==
    (pc = "returned" /\ proc # None) =>
        LET r == reprint[1]
        IN  /\ CouldNotRun => (~r.warning /\ r.note # None)
            /\ (~r.warning /\ r.note = None) =>
                   /\ ~CouldNotRun
                   /\ ParseStdout(proc[1].stdout) = <<>>
            /\ r.warning <=> r.matches # <<>>

\* ---- C22: requests without a subject name
\* the request asks for an analysis
AsksAnalysis ==
    /\ req # None
    /\ \/ req[1].path = "/analyze"
       \/ req[1].path = "/mcp" /\ req[1].body.action = Some("analyze")

\* its subject name is empty or missing
Nameless == req[1].body.set_name \in {None, Some("")}

\* C22 as claimed: POST /analyze and the "analyze" action of POST /mcp answer
\* an empty or missing subject name with status 400, and compute_metrics is
\* never called for such a request.
C22_NamelessRejected400 ==
    (AsksAnalysis /\ Nameless) =>
        /\ trace = <<>>
        /\ pc = "responded" => resp[1].status = 400

\* C22 amended: POST /analyze and the "analyze" action of POST /mcp answer an
\* empty or missing subject name with a client error, and compute_metrics is
\* never called for such a request; the status is 400, except that a body of
\* POST /analyze without the set_name key fails the validation of the request
\* model and is answered with 422.
C22_NamelessRejected ==
    (AsksAnalysis /\ Nameless) =>
        /\ trace = <<>>
        /\ pc \in {"idle", "validate", "responded"}
        /\ pc = "responded" =>
            /\ resp[1].body.metrics = None
            /\ resp[1].status
                   = IF req[1].path = "/analyze" /\ req[1].body.set_name = None
                     THEN 422
                     ELSE 400

\* a body of /analyze without set_name has been refused
C22_Witness ==
    /\ pc = "responded"
    /\ req[1].path = "/analyze"
    /\ req[1].body = Body(None, None, Some(TRUE))
    /\ resp[1].status = 422
    /\ resp[1].body.metrics = None
    /\ trace = <<>>

\* ---- C23: a failed explanation
\* the key is present in the response body
Present(key) == resp[1].body[key] # None

\* C23: when /analyze or the "analyze" action of /mcp is asked for an
\* explanation and compute_metrics has returned, the response is a 200 that
\* carries the metrics as compute_metrics returned them and exactly one of
\* ai_explanation (the text the adapter returned) and ai_error (the adapter
\* raised); a failure of the adapter never aborts the request; when no
\* explanation is asked for, neither field is present.
C23_ExplanationFailureReported ==
    (pc = "responded" /\ report # None) =>
        /\ resp[1].status = 200
        /\ resp[1].body.metrics = report
        /\ UseAi(req[1].body) =>
            /\ explained # None
            /\ Present("ai_explanation") # Present("ai_error")
            /\ ~explained[1].raises =>
                   resp[1].body.ai_explanation = explained[1].val
            /\ explained[1].raises <=> Present("ai_error")
        /\ ~UseAi(req[1].body) =>
            /\ ~Present("ai_explanation")
            /\ ~Present("ai_error")

C23_Witness ==
    /\ pc = "responded"
    /\ req[1].path = "/analyze"
    /\ UseAi(req[1].body)
    /\ explained = Some([raises |-> TRUE, val |-> Some("explain failed")])
    /\ resp[1].status = 200
    /\ resp[1].body.metrics = report
    /\ resp[1].body.ai_error = Some("explain failed")
    /\ resp[1].body.ai_explanation = None

\* ---- C28: notifications on the stdio bridge
\* the value read from the i-th line
MsgAt(i) == Loads(Strip(stdin[i]))

\* the i-th line is a notification: a JSON message without an id
Notification(i) == MsgAt(i) # None /\ MsgAt(i)[1].dict /\ MsgAt(i)[1].id = None

\* C28: the bridge writes nothing to stdout for a notification (a JSON message
\* without an id), whatever its method, initialize, tools/list and tools/call
\* included.
C28_NotificationsUnanswered ==
    \A i \in DOMAIN stdout : Notification(i) => stdout[i] = <<>>

\* ---- C29: one line per request
\* the i-th line is a JSON message with an id
CarriesId(i) == MsgAt(i) # None /\ MsgAt(i)[1].dict /\ MsgAt(i)[1].id # None

\* C29: for every sequence of stdin lines the bridge writes exactly one JSON
\* line for each message that carries an id, in the order of the messages; the
\* responses to initialize, tools/list and tools/call, the error response of a
\* failed tool call included, echo the id of the request; blank and non-JSON
\* lines produce nothing and do not stop the loop, which ends only at the end
\* of the input.
C29_OneLinePerRequest ==
    /\ \A i \in DOMAIN stdout :
        /\ CarriesId(i) => Len(stdout[i]) = 1
        /\ (CarriesId(i) /\ MsgAt(i)[1].method
                \in {Some("initialize"), Some("tools/list"), Some("tools/call")}) =>
               \A k \in DOMAIN stdout[i] : stdout[i][k].id = MsgAt(i)[1].id
        /\ MsgAt(i) = None => stdout[i] = <<>>
    /\ pc # "crashed"
    /\ pc = "exited" => Len(stdout) = Len(stdin)

\* ---- C30: the streaming endpoint
\* the i-th message, parsed
PayloadAt(i) == WsLoads(ws_in[i])

\* it is an explain message with a subject name or with metrics
ExplainWithInput(i) ==
    /\ PayloadAt(i) # None
    /\ PayloadAt(i)[1].dict
    /\ PayloadAt(i)[1].action = Some("explain")
    /\ PayloadAt(i)[1].set_name # None \/ PayloadAt(i)[1].metrics # None

\* it is invalid JSON, has an unknown action, or is an explain message with
\* neither a name nor metrics
ToBeRefused(i) ==
    \/ PayloadAt(i) = None
    \/ /\ PayloadAt(i)[1].dict
       /\ \/ PayloadAt(i)[1].action # Some("explain")
          \/ PayloadAt(i)[1].set_name = None /\ PayloadAt(i)[1].metrics = None

\* zero or more chunks, then one done
ChunksThenDone(out) ==
    /\ out # <<>>
    /\ out[Len(out)].kind = "done"
    /\ \A k \in 1 .. (Len(out) - 1) : out[k].kind = "chunk"

\* C30: on /mcp/ws every explain message that gives a subject name or metrics
\* is answered by zero or more chunk messages followed by exactly one done
\* message; invalid JSON, an unknown action and an explain message with
\* neither are answered by a single error message; none of these messages
\* ends the connection, the next message is processed.
C30_ExplainStreamsThenDone ==
    /\ \A i \in DOMAIN ws_out :
        /\ ExplainWithInput(i) => ChunksThenDone(ws_out[i])
        /\ ToBeRefused(i) => (Len(ws_out[i]) = 1 /\ ws_out[i][1].kind = "error")
    /\ pc = "crashed" =>
           (~ExplainWithInput(Len(ws_out)) /\ ~ToBeRefused(Len(ws_out)))

====
